---- MODULE Spec2Model ----
(***************************************************************************)
(* Document processing pipeline of llm_data_pipeline:                      *)
(*   src/data_processing/base.py       ProcessedDocument, ProcessingPipeline*)
(*   src/data_processing/filtering.py  ContentFilter, Deduplicator         *)
(*   src/data_processing/cleaning.py   BasicTextCleaner                    *)
(*                                                                         *)
(* Python objects are modelled by reference: heap maps an object identity  *)
(* (1..n) to the fields of a ProcessedDocument, and every list of          *)
(* documents is a sequence of identities, NoneRef standing for None.       *)
(* A str is a sequence of one-character strings.  A dict is a function on  *)
(* its keys when only membership matters (processing_metadata) and a       *)
(* sequence of <<key, value>> pairs in insertion order when the code       *)
(* iterates over it (content_hashes, simhashes, doc_shingles).  A float    *)
(* similarity, score or threshold is the exact fraction                    *)
(* <<numerator, denominator>>, and Optional[float] quality_score is <<>>   *)
(* (None) or such a fraction.                                              *)
(***************************************************************************)
EXTENDS Integers, Sequences, FiniteSets, TLC

VARIABLES
    processors,     \* ProcessingPipeline.processors
    batch_size,     \* batch_size argument of process_batch
    hash_seed,      \* the interpreter's str-hash salt (PYTHONHASHSEED)
    documents,      \* the documents argument of the call in progress
    heap,           \* object identity -> ProcessedDocument fields
    current_batch,  \* process_batch: current_batch
    stage_idx,      \* process_batch: index of the processor being applied
    doc_idx,        \* process_batch: index of the next document / sub-batch start
    all_results,    \* process_batch: results collected for the current processor
    pc,             \* the call: "idle", "running" (process_batch), "done" (its generator
                    \* is exhausted), "failed" (it raised), "returned" / "raised"
                    \* (process_document, one stage on its own)
    output,         \* what the call produced
    trace,          \* history variable: <<stage_idx, object>> per stage application
    runs            \* history variable: the last two Deduplicator runs (salt, partition)

vars == <<processors, batch_size, hash_seed, documents, heap, current_batch,
          stage_idx, doc_idx, all_results, pc, output, trace, runs>>

----------------------------------------------------------------------------
(* Bounds of the model *)

\* largest number of documents in one call
MaxBatch == 3
\* longest text given to a single ContentFilter.process call
MaxTextLen == 2
\* longest pipeline
MaxStages == 2
\* characters of the modelled texts
Chars == {"a", "b", "c", "A"}

NoneRef == 0

SeqsUpTo(S, n) == UNION {[1..k -> S] : k \in 0..n}

Range(seq) == {seq[i] : i \in 1..Len(seq)}

----------------------------------------------------------------------------
(* Python helpers *)

\* dict with [] and `in`: a function on its keys
EmptyDict == [k \in {} |-> 0]

DictPut(m, k, v) == [x \in (DOMAIN m) \cup {k} |-> IF x = k THEN v ELSE m[x]]

DictGetDefault(m, k, default) == IF k \in DOMAIN m THEN m[k] ELSE default

\* dict in insertion order: a sequence of <<key, value>> pairs
OrderedHas(d, k) == \E i \in 1..Len(d) : d[i][1] = k

\* a lookup that answers with the entry inserted last
OrderedGetLast(d, k) == d[Len(d)][2]

OrderedGet(d, k) == d[CHOOSE i \in 1..Len(d) : d[i][1] = k][2]

OrderedSet(d, k, v) ==
    IF OrderedHas(d, k)
    THEN [i \in 1..Len(d) |-> IF d[i][1] = k THEN <<k, v>> ELSE d[i]]
    ELSE Append(d, <<k, v>>)

\* str.lower() and re.IGNORECASE folding
LowerChar(c) == IF c = "A" THEN "a" ELSE c

Lower(text) == [i \in 1..Len(text) |-> LowerChar(text[i])]

\* the characters c with c.isalnum(), among those the model's texts use
Alnum ==
    {"a", "b", "c", "d", "e", "f", "g", "h", "i", "j", "k", "l", "m",
     "n", "o", "p", "q", "r", "s", "t", "u", "v", "w", "x", "y", "z"}
    \cup
    {"A", "B", "C", "D", "E", "F", "G", "H", "I", "J", "K", "L", "M",
     "N", "O", "P", "Q", "R", "S", "T", "U", "V", "W", "X", "Y", "Z"}
    \cup
    {"0", "1", "2", "3", "4", "5", "6", "7", "8", "9"}
    \cup
    {"U+0E22", "U+0E07"}

\* the characters str.split() splits at, among those the model's texts use
Whitespace == {" ", "\n", "\t"}

\* a >= b for fractions with positive denominators
FracGeq(a, b) == a[1] * b[2] >= b[1] * a[2]

\* the greatest common divisor of two naturals, not both 0
RECURSIVE Gcd(_, _)
Gcd(a, b) == IF b = 0 THEN a ELSE Gcd(b, a % b)

Abs(n) == IF n < 0 THEN -n ELSE n

\* the fraction num / den in lowest terms, den > 0
Frac(num, den) ==
    LET g == Gcd(Abs(num), den) IN <<num \div g, den \div g>>

FracOfInt(n) == <<n, 1>>

FracAdd(a, b) == Frac(a[1] * b[2] + b[1] * a[2], a[2] * b[2])

FracSub(a, b) == Frac(a[1] * b[2] - b[1] * a[2], a[2] * b[2])

FracMul(a, b) == Frac(a[1] * b[1], a[2] * b[2])

\* a / b for b > 0
FracDiv(a, b) == Frac(a[1] * b[2], a[2] * b[1])

\* min(a, b) and max(a, b) of Python: the first argument unless the second is
\* strictly smaller (larger)
\* the bound is returned whatever the value
FracMinUnclamped(a, b) == b

FracMin(a, b) == IF FracGeq(b, a) THEN a ELSE b

FracMax(a, b) == IF FracGeq(a, b) THEN a ELSE b

----------------------------------------------------------------------------
(* ProcessedDocument *)

\* a Document as the collectors build it (generic.py 130-136): source is the
\* collector's name, source_id the id again, metadata the selected fields
Document(id, text) ==
    [id |-> id, text |-> text, metadata |-> [court |-> "x"], source |-> "generic",
     source_id |-> id]

\* from_document without its original_metadata argument: the field keeps its
\* default, an empty dict
FromDocumentWithoutMetadata(doc) ==
    [id |-> doc.id,
     source |-> doc.source,
     source_id |-> doc.source_id,
     text |-> doc.text,
     tokens |-> <<>>,
     token_count |-> <<>>,
     quality_score |-> <<>>,
     quality_metrics |-> EmptyDict,
     processing_metadata |-> EmptyDict,
     original_metadata |-> EmptyDict,
     enhanced_metadata |-> EmptyDict,
     processing_history |-> <<"initial_import">>]

\* ProcessedDocument.from_document; the dataclass defaults for the other fields,
\* None being <<>>
FromDocument(doc) ==
    [id |-> doc.id,
     source |-> doc.source,
     source_id |-> doc.source_id,
     text |-> doc.text,
     tokens |-> <<>>,
     token_count |-> <<>>,
     quality_score |-> <<>>,
     quality_metrics |-> EmptyDict,
     processing_metadata |-> EmptyDict,
     original_metadata |-> doc.metadata,
     enhanced_metadata |-> EmptyDict,
     processing_history |-> <<"initial_import">>]

\* the step put in front of the history
AddProcessingStepInFront(rec, step_name, metadata) ==
    [rec EXCEPT !.processing_history = <<step_name>> \o @,
                !.processing_metadata =
                    IF DOMAIN metadata # {} THEN DictPut(@, step_name, metadata) ELSE @]

AddProcessingStep(rec, step_name, metadata) ==
    [rec EXCEPT !.processing_history = Append(@, step_name),
                !.processing_metadata =
                    IF DOMAIN metadata # {} THEN DictPut(@, step_name, metadata) ELSE @]

----------------------------------------------------------------------------
(* Deduplicator (filtering.py) *)

\* hash_size of calculate_simhash
HashSize == 64

\* Salts of two interpreter processes.  hash(str) is salted per process
\* unless PYTHONHASHSEED fixes it; the tables hold the 1-bits of
\* hash(ngram) % 2**64 as computed by CPython 3.11 with PYTHONHASHSEED=1, 2.
HashSeeds == {1, 2}

StrHashSeed1 ==
     <<"a","b","c">> :> {0,2,4,5,6,9,10,12,13,14,16,17,18,20,24,25,26,27,28,30,31,33,34,35,37,38,40,41,45,46,49,51,52,53,56,57,58,59,60,61,63} @@
     <<"a">> :> {0,1,4,5,6,9,10,11,18,19,22,23,24,25,26,28,29,30,31,32,35,38,39,40,41,43,52,53,57,58,60,62,63} @@
     <<"b">> :> {0,1,4,7,10,14,15,16,17,20,21,22,24,25,26,28,31,32,34,35,37,38,40,41,43,44,47,51,53,54,55,57,60,61,62} @@
     <<"c">> :> {0,1,2,4,5,6,8,10,11,13,15,16,17,18,19,20,21,28,29,30,32,34,35,36,37,39,41,43,44,48,49,54,61,62} @@
     <<"A">> :> {0,1,6,8,9,10,12,13,14,16,17,18,19,20,21,22,24,27,29,31,35,37,38,39,40,41,43,46,51,54,55,56,59,61} @@
     <<"a","a">> :> {9,10,12,16,17,18,20,21,22,23,24,26,28,31,34,35,38,39,40,43,45,47,49,51,52,53,54,55,57,58,59,61,62} @@
     <<"a","b">> :> {1,2,5,6,8,12,13,15,16,18,20,22,23,26,27,28,29,30,33,34,37,38,39,41,42,43,44,49,50,52,54,59,60,61,63} @@
     <<"a","c">> :> {3,4,5,6,7,9,10,12,13,18,19,21,22,23,30,33,34,35,36,43,47,48,50,54,61} @@
     <<"a","A">> :> {5,6,9,10,13,14,15,17,18,19,20,21,23,25,26,29,30,31,35,37,38,39,40,41,42,43,44,45,51,52,54,55,58,59,60,62} @@
     <<"b","a">> :> {4,5,8,11,16,20,22,23,28,29,30,32,34,35,37,42,45,47,51,52,54,57,58,60,61,63} @@
     <<"b","b">> :> {4,5,6,8,9,10,11,12,17,19,21,22,23,26,27,28,31,32,34,35,36,37,38,40,41,43,44,48,52,53,56,57,60} @@
     <<"b","c">> :> {1,2,3,5,6,8,9,10,11,12,14,15,16,17,20,21,23,25,26,28,29,32,33,34,38,41,46,47,48,49,55,56,59,60} @@
     <<"b","A">> :> {0,1,2,3,10,11,14,18,20,25,26,27,29,31,33,35,40,41,42,43,45,46,48,49,55,58,59,61} @@
     <<"c","a">> :> {0,2,6,7,10,11,15,16,18,20,24,26,29,30,31,34,38,39,41,42,43,46,49,53,55,56,58,61,62,63} @@
     <<"c","b">> :> {1,2,4,8,9,10,12,15,16,19,20,22,24,26,28,29,30,31,32,37,38,39,42,43,44,46,48,49,51,55,57,58,59,62,63} @@
     <<"c","c">> :> {2,3,4,9,10,11,12,14,17,18,19,22,24,25,28,29,30,45,49,50,51,58,59,60,62} @@
     <<"c","A">> :> {2,4,5,6,7,8,11,12,14,15,16,17,20,21,24,25,27,32,33,36,37,40,42,43,44,46,49,50,52,53,56,57,58,60,61,62} @@
     <<"A","a">> :> {1,4,5,6,8,12,13,15,19,20,24,25,26,27,31,32,35,37,41,44,47,50,51,55,56,62,63} @@
     <<"A","b">> :> {0,4,7,8,11,14,17,18,19,20,21,22,23,25,26,29,34,36,37,38,42,44,47,48,51,52,53,55,56,58,59} @@
     <<"A","c">> :> {0,1,3,4,6,7,8,11,12,14,15,20,24,25,26,27,28,31,32,34,39,42,44,45,47,48,49,52,54,56,57,62,63} @@
     <<"A","A">> :> {1,3,4,8,10,11,12,13,14,15,18,19,21,22,24,25,27,28,33,36,37,40,43,44,45,46,51,52,55,57,60,61,63}
StrHashSeed2 ==
     <<"a","b","c">> :> {2,3,4,5,7,11,12,13,14,16,17,18,20,21,23,28,31,33,34,36,43,44,45,48,51,52,53,54,59,60,61} @@
     <<"a">> :> {0,2,3,4,5,7,8,10,11,12,13,17,20,21,22,24,26,29,30,33,37,38,39,41,42,44,45,46,51,53,59,60,62} @@
     <<"b">> :> {1,5,7,8,10,12,13,15,16,18,19,27,31,36,38,44,45,48,49,50,53,57,59,63} @@
     <<"c">> :> {0,4,5,6,7,12,13,17,24,25,26,28,30,31,33,34,36,37,43,45,46,49,50,51,52,53,54,55,56,59,60,61,62,63} @@
     <<"A">> :> {1,2,3,4,6,7,8,11,12,16,20,24,25,26,27,29,33,34,36,37,42,43,44,45,46,51,52,54,56,57,58,62} @@
     <<"a","a">> :> {1,4,7,8,9,11,12,15,17,18,19,21,22,23,24,25,28,30,33,34,36,37,38,39,40,42,43,44,45,47,48,49,62} @@
     <<"a","b">> :> {0,2,3,4,6,8,10,12,15,16,18,19,20,23,24,25,26,27,29,31,32,34,41,42,45,46,47,48,51,53,54,57,61,62} @@
     <<"a","c">> :> {1,2,3,4,5,7,8,9,12,16,17,18,20,22,24,26,31,35,40,42,43,44,46,47,49,50,51,57,58,59,60} @@
     <<"a","A">> :> {1,2,9,11,13,15,17,18,20,21,22,23,24,25,26,28,29,32,33,35,37,51,55,56,58,61,62} @@
     <<"b","a">> :> {0,1,3,8,9,10,11,14,15,17,18,21,24,27,30,33,35,39,40,45,47,49,51,52,53,54,55,58,61,62} @@
     <<"b","b">> :> {0,4,7,12,19,21,22,23,24,25,29,31,32,34,35,37,39,42,43,46,47,49,50,51,58,60} @@
     <<"b","c">> :> {0,1,2,5,7,8,10,12,16,17,21,22,23,25,27,32,34,36,39,42,44,45,47,48,51,55,56,57,59,62,63} @@
     <<"b","A">> :> {0,2,3,4,7,12,13,14,18,20,22,25,27,28,29,35,36,41,42,43,44,46,51,57,58,61} @@
     <<"c","a">> :> {0,2,3,5,9,12,13,14,15,16,17,20,23,24,25,28,30,31,32,34,36,40,45,48,49,51,53,54,58,61} @@
     <<"c","b">> :> {0,2,5,9,11,14,17,22,27,29,31,33,34,35,37,38,40,42,43,47,51,52,53,54,55,56,57,58,59,61,62,63} @@
     <<"c","c">> :> {2,6,7,8,9,13,16,18,20,26,27,30,32,33,34,36,39,40,41,46,48,51,52,53,54,55,56,58,60,61,62,63} @@
     <<"c","A">> :> {1,3,5,6,7,10,11,13,14,17,18,19,22,23,24,28,29,33,34,35,37,38,39,40,41,42,43,46,47,48,51,52,55,57,59,61,62} @@
     <<"A","a">> :> {2,4,5,6,8,10,12,13,14,16,17,18,19,20,26,28,29,30,32,33,34,38,40,45,46,47,49,51,52,54,56,59,60} @@
     <<"A","b">> :> {0,3,4,5,6,9,11,12,13,16,18,21,23,24,29,30,31,32,35,36,38,44,46,47,48,49,53,54,55,56,57,60,61,62,63} @@
     <<"A","c">> :> {2,3,7,8,9,13,15,16,17,18,21,23,25,28,30,32,33,36,37,40,43,45,47,49,51,53,54,55,58,59,60,61} @@
     <<"A","A">> :> {0,1,2,3,6,8,10,12,13,15,19,21,26,27,28,35,36,38,39,41,42,47,49,52,54,57,58,59,60,61}


\* hash(ngram) % (2**hash_size), as the set of its 1-bits
StrHash(seed, ngram) == IF seed = 1 THEN StrHashSeed1[ngram] ELSE StrHashSeed2[ngram]

\* hash_func(doc.text.encode('utf-8')).hexdigest(): the digest is taken to be
\* collision free, so it is the pair of the algorithm and the text
ContentHash(hash_function, text) ==
    <<IF hash_function \in {"md5", "sha1", "sha256"} THEN hash_function ELSE "md5", text>>

GetNgrams(text, n) ==
    IF Len(text) < n THEN <<>>
    ELSE [i \in 1..(Len(text) - n + 1) |-> SubSeq(text, i, i + n - 1)]

\* calculate_simhash, the loop over ngrams from the k-th on: hash_vector
RECURSIVE HashVector(_, _, _, _)
HashVector(ngrams, k, seed, hash_vector) ==
    IF k > Len(ngrams) THEN hash_vector
    ELSE LET ngram_hash == StrHash(seed, ngrams[k])
         IN  HashVector(ngrams, k + 1, seed,
                        [i \in 0..(HashSize - 1) |->
                            IF i \in ngram_hash THEN hash_vector[i] + 1
                            ELSE hash_vector[i] - 1])

\* calculate_simhash: the set of the 1-bits of the signature
CalculateSimhash(text, n, seed) ==
    LET ngrams == GetNgrams(text, n)
        hash_vector == HashVector(ngrams, 1, seed, [i \in 0..(HashSize - 1) |-> 0])
    IN  IF Len(ngrams) = 0 THEN {}
        ELSE {i \in 0..(HashSize - 1) : hash_vector[i] > 0}

HammingDistance(hash1, hash2) == Cardinality((hash1 \ hash2) \cup (hash2 \ hash1))

\* distance / 64.0
CalculateSimilarityAsDistance(hash1, hash2) == <<HammingDistance(hash1, hash2), HashSize>>

\* 1.0 - (distance / 64.0)
CalculateSimilarity(hash1, hash2) == <<HashSize - HammingDistance(hash1, hash2), HashSize>>

GetShingles(text, n) == {SubSeq(text, i, i + n - 1) : i \in 1..(Len(text) - n + 1)}

JaccardSimilarity(set1, set2) ==
    IF set1 = {} \/ set2 = {} THEN <<0, 1>>
    ELSE <<Cardinality(set1 \cap set2), Cardinality(set1 \cup set2)>>

\* the signature a method compares: a simhash or a shingle set
Signature(self, text, seed) ==
    IF self.method = "simhash" THEN CalculateSimhash(text, self.ngram_size, seed)
    ELSE GetShingles(text, self.ngram_size)

Similarity(self, sig1, sig2) ==
    IF self.method = "simhash" THEN CalculateSimilarity(sig1, sig2)
    ELSE JaccardSimilarity(sig1, sig2)

\* for unique_id, unique_hash in uniques.items(): ... break
\* the position of the entry the loop stops at, 0 when it runs to the end
FirstSimilar(self, uniques, sig) ==
    LET hits == {j \in 1..Len(uniques) :
                    FracGeq(Similarity(self, sig, uniques[j][2]), self.similarity_threshold)}
    IN  IF hits = {} THEN 0 ELSE CHOOSE j \in hits : \A k \in hits : j <= k

\* first loop of _exact_deduplication, from document i on
RECURSIVE ExactLoop(_, _, _, _)
ExactLoop(st, docs, i, self) ==
    IF i > Len(docs) THEN st
    ELSE LET doc == docs[i]
             content_hash == ContentHash(self.hash_function, st.heap[doc].text)
         IN  IF OrderedHas(st.uniques, content_hash)
             THEN ExactLoop(
                    [st EXCEPT !.heap[doc].processing_metadata =
                                   DictPut(DictPut(@, "duplicate", TRUE), "duplicate_of",
                                           OrderedGet(st.uniques, content_hash)),
                               !.duplicates = Append(@, doc)],
                    docs, i + 1, self)
             ELSE ExactLoop(
                    [st EXCEPT !.uniques = OrderedSet(@, content_hash, st.heap[doc].id),
                               !.heap[doc].processing_metadata = DictPut(@, "duplicate", FALSE),
                               !.deduplicated = Append(@, doc)],
                    docs, i + 1, self)

\* the loop with the duplicates kept as candidates for later records too
RECURSIVE ApproxLoopComparingAll(_, _, _, _, _)
ApproxLoopComparingAll(st, docs, i, self, seed) ==
    IF i > Len(docs) THEN st
    ELSE LET doc == docs[i]
             sig == Signature(self, st.heap[doc].text, seed)
             j == FirstSimilar(self, st.uniques, sig)
         IN  IF j # 0
             THEN ApproxLoopComparingAll(
                    [st EXCEPT !.heap[doc].processing_metadata =
                                   DictPut(DictPut(DictPut(@, "duplicate", TRUE),
                                                   "duplicate_of", st.uniques[j][1]),
                                           "similarity", Similarity(self, sig, st.uniques[j][2])),
                               !.uniques = OrderedSet(@, st.heap[doc].id, sig),
                               !.duplicates = Append(@, doc)],
                    docs, i + 1, self, seed)
             ELSE ApproxLoopComparingAll(
                    [st EXCEPT !.uniques = OrderedSet(@, st.heap[doc].id, sig),
                               !.heap[doc].processing_metadata = DictPut(@, "duplicate", FALSE),
                               !.deduplicated = Append(@, doc)],
                    docs, i + 1, self, seed)

\* first loop of _simhash_deduplication and of _minhash_deduplication
RECURSIVE ApproxLoop(_, _, _, _, _)
ApproxLoop(st, docs, i, self, seed) ==
    IF i > Len(docs) THEN st
    ELSE LET doc == docs[i]
             sig == Signature(self, st.heap[doc].text, seed)
             j == FirstSimilar(self, st.uniques, sig)
         IN  IF j # 0
             THEN ApproxLoop(
                    [st EXCEPT !.heap[doc].processing_metadata =
                                   DictPut(DictPut(DictPut(@, "duplicate", TRUE),
                                                   "duplicate_of", st.uniques[j][1]),
                                           "similarity", Similarity(self, sig, st.uniques[j][2])),
                               !.duplicates = Append(@, doc)],
                    docs, i + 1, self, seed)
             ELSE ApproxLoop(
                    [st EXCEPT !.uniques = OrderedSet(@, st.heap[doc].id, sig),
                               !.heap[doc].processing_metadata = DictPut(@, "duplicate", FALSE),
                               !.deduplicated = Append(@, doc)],
                    docs, i + 1, self, seed)

\* metadata of the "deduplication" processing step
DedupStepMetadata(self, rec) ==
    LET is_duplicate == DictGetDefault(rec.processing_metadata, "duplicate", FALSE)
    IN  IF self.method = "exact"
        THEN [method |-> "exact", hash_function |-> self.hash_function,
              is_duplicate |-> is_duplicate]
        ELSE [method |-> self.method, ngram_size |-> self.ngram_size,
              similarity_threshold |-> self.similarity_threshold,
              is_duplicate |-> is_duplicate,
              similarity |-> DictGetDefault(rec.processing_metadata, "similarity", <<1, 1>>)]

\* the processing step is added to the documents that are kept only
RECURSIVE DedupStepLoopKept(_, _, _, _)
DedupStepLoopKept(h, docs, i, self) ==
    IF i > Len(docs) THEN h
    ELSE DedupStepLoopKept(
            IF h[docs[i]].processing_metadata["duplicate"] THEN h
            ELSE [h EXCEPT ![docs[i]] =
                     AddProcessingStep(@, "deduplication", DedupStepMetadata(self, @))],
            docs, i + 1, self)

\* second loop: add the processing step to all documents
RECURSIVE DedupStepLoop(_, _, _, _)
DedupStepLoop(h, docs, i, self) ==
    IF i > Len(docs) THEN h
    ELSE DedupStepLoop(
            [h EXCEPT ![docs[i]] =
                 AddProcessingStep(@, "deduplication", DedupStepMetadata(self, @))],
            docs, i + 1, self)

\* process_batch returns the deduplicated list whatever keep_first says
DeduplicatorProcessBatchKeepFirst(self, h, docs, seed) ==
    IF \E i \in 1..Len(docs) : docs[i] = NoneRef
    THEN [raised |-> TRUE, heap |-> h, result |-> <<>>]
    ELSE IF self.method \notin {"exact", "simhash", "minhash"}
    THEN [raised |-> FALSE, heap |-> h, result |-> docs]
    ELSE LET st0 == [heap |-> h, uniques |-> <<>>, deduplicated |-> <<>>, duplicates |-> <<>>]
             st == IF self.method = "exact" THEN ExactLoop(st0, docs, 1, self)
                   ELSE ApproxLoop(st0, docs, 1, self, seed)
         IN  [raised |-> FALSE,
              heap |-> DedupStepLoop(st.heap, docs, 1, self),
              result |-> st.deduplicated]

\* Deduplicator.process_batch: [raised, heap, result]
DeduplicatorProcessBatch(self, h, docs, seed) ==
    IF \E i \in 1..Len(docs) : docs[i] = NoneRef
    THEN [raised |-> TRUE, heap |-> h, result |-> <<>>]
    ELSE IF self.method \notin {"exact", "simhash", "minhash"}
    THEN [raised |-> FALSE, heap |-> h, result |-> docs]
    ELSE LET st0 == [heap |-> h, uniques |-> <<>>, deduplicated |-> <<>>, duplicates |-> <<>>]
             st == IF self.method = "exact" THEN ExactLoop(st0, docs, 1, self)
                   ELSE ApproxLoop(st0, docs, 1, self, seed)
         IN  [raised |-> FALSE,
              heap |-> DedupStepLoop(st.heap, docs, 1, self),
              result |-> IF self.keep_first THEN st.deduplicated ELSE docs]

----------------------------------------------------------------------------
(* ContentFilter (filtering.py) *)

\* pattern.search(text) for a pattern that is a literal, compiled with re.IGNORECASE
Search(pattern, text) ==
    \E i \in 1..(Len(text) - Len(pattern) + 1) :
        Lower(SubSeq(text, i, i + Len(pattern) - 1)) = Lower(pattern)

\* the checks with the patterns looked at before the lengths and the score
FilterVerdictPatternsFirst(self, rec) ==
    LET text_length == Len(rec.text)
        missing == {i \in 1..Len(self.required_patterns) :
                        ~Search(self.required_patterns[i], rec.text)}
        found == {i \in 1..Len(self.excluded_patterns) :
                        Search(self.excluded_patterns[i], rec.text)}
        First(S) == CHOOSE i \in S : \A k \in S : i <= k
    IN  IF missing # {}
        THEN <<"Missing required pattern", self.required_patterns[First(missing)]>>
        ELSE IF found # {}
        THEN <<"Contains excluded pattern", self.excluded_patterns[First(found)]>>
        ELSE IF text_length < self.min_length
        THEN <<"Text too short", text_length, self.min_length>>
        ELSE IF self.max_length # <<>> /\ text_length > self.max_length[1]
        THEN <<"Text too long", text_length, self.max_length[1]>>
        ELSE IF rec.quality_score # <<>> /\ ~FracGeq(rec.quality_score, self.min_quality_score)
        THEN <<"Quality score too low", rec.quality_score, self.min_quality_score>>
        ELSE <<>>

\* ContentFilter.process, the checks: the filter_reason of the check the method
\* returns at, <<>> when the document passes all filters
FilterVerdict(self, rec) ==
    LET text_length == Len(rec.text)
        missing == {i \in 1..Len(self.required_patterns) :
                        ~Search(self.required_patterns[i], rec.text)}
        found == {i \in 1..Len(self.excluded_patterns) :
                        Search(self.excluded_patterns[i], rec.text)}
        First(S) == CHOOSE i \in S : \A k \in S : i <= k
    IN  IF text_length < self.min_length
        THEN <<"Text too short", text_length, self.min_length>>
        ELSE IF self.max_length # <<>> /\ text_length > self.max_length[1]
        THEN <<"Text too long", text_length, self.max_length[1]>>
        ELSE IF rec.quality_score # <<>> /\ ~FracGeq(rec.quality_score, self.min_quality_score)
        THEN <<"Quality score too low", rec.quality_score, self.min_quality_score>>
        ELSE IF missing # {}
        THEN <<"Missing required pattern", self.required_patterns[First(missing)]>>
        ELSE IF found # {}
        THEN <<"Contains excluded pattern", self.excluded_patterns[First(found)]>>
        ELSE <<>>

\* the filter drops every rejected record, whatever keep_document says
ContentFilterProcessDropping(self, h, doc) ==
    IF doc = NoneRef
    THEN [raised |-> TRUE, heap |-> h, result |-> NoneRef]
    ELSE LET reason == FilterVerdict(self, h[doc])
         IN  IF reason # <<>>
             THEN [raised |-> FALSE, heap |-> h, result |-> NoneRef]
             ELSE [raised |-> FALSE,
                   heap |-> [h EXCEPT ![doc] =
                                AddProcessingStep(
                                    [@ EXCEPT !.processing_metadata =
                                                   DictPut(@, "filtered", FALSE)],
                                    "content_filtering",
                                    [passed |-> TRUE,
                                     min_quality_score |-> self.min_quality_score,
                                     min_length |-> self.min_length,
                                     max_length |-> self.max_length,
                                     required_patterns_count |-> Len(self.required_patterns),
                                     excluded_patterns_count |-> Len(self.excluded_patterns)])],
                   result |-> doc]

\* ContentFilter.process: [raised, heap, result]
ContentFilterProcess(self, h, doc) ==
    IF doc = NoneRef
    THEN [raised |-> TRUE, heap |-> h, result |-> NoneRef]
    ELSE LET reason == FilterVerdict(self, h[doc])
         IN  IF reason # <<>>
             THEN IF ~self.keep_document
                  THEN [raised |-> FALSE, heap |-> h, result |-> NoneRef]
                  ELSE [raised |-> FALSE,
                        heap |-> [h EXCEPT ![doc].processing_metadata =
                                     DictPut(DictPut(@, "filtered", TRUE),
                                             "filter_reason", reason)],
                        result |-> doc]
             ELSE [raised |-> FALSE,
                   heap |-> [h EXCEPT ![doc] =
                                AddProcessingStep(
                                    [@ EXCEPT !.processing_metadata =
                                                   DictPut(@, "filtered", FALSE)],
                                    "content_filtering",
                                    [passed |-> TRUE,
                                     min_quality_score |-> self.min_quality_score,
                                     min_length |-> self.min_length,
                                     max_length |-> self.max_length,
                                     required_patterns_count |-> Len(self.required_patterns),
                                     excluded_patterns_count |-> Len(self.excluded_patterns)])],
                   result |-> doc]

----------------------------------------------------------------------------
(* BasicTextCleaner (cleaning.py) *)

\* the cleaner also forgets the score computed for the text it rewrites
BasicTextCleanerProcessClearingScore(self, h, doc) ==
    IF doc = NoneRef
    THEN [raised |-> TRUE, heap |-> h, result |-> NoneRef]
    ELSE LET original_length == Len(h[doc].text)
             text == IF self.lowercase THEN Lower(h[doc].text) ELSE h[doc].text
         IN  [raised |-> FALSE,
              heap |-> [h EXCEPT ![doc] =
                           AddProcessingStep(
                               [@ EXCEPT !.text = text, !.quality_score = <<>>],
                               "basic_text_cleaning",
                               [original_length |-> original_length,
                                cleaned_length |-> Len(text),
                                chars_removed |-> original_length - Len(text),
                                lowercase |-> self.lowercase])],
              result |-> doc]

\* BasicTextCleaner.process with max_line_length=None.  The texts of the model
\* are made of Chars: they hold no whitespace, URL or e-mail address and are
\* in NFKC form, so of the cleaning steps only lowercase rewrites them.
BasicTextCleanerProcess(self, h, doc) ==
    IF doc = NoneRef
    THEN [raised |-> TRUE, heap |-> h, result |-> NoneRef]
    ELSE LET original_length == Len(h[doc].text)
             text == IF self.lowercase THEN Lower(h[doc].text) ELSE h[doc].text
         IN  [raised |-> FALSE,
              heap |-> [h EXCEPT ![doc] =
                           AddProcessingStep(
                               [@ EXCEPT !.text = text],
                               "basic_text_cleaning",
                               [original_length |-> original_length,
                                cleaned_length |-> Len(text),
                                chars_removed |-> original_length - Len(text),
                                lowercase |-> self.lowercase])],
              result |-> doc]

----------------------------------------------------------------------------
(* TextNormalizer (cleaning.py).  A character outside ASCII is the string   *)
(* of its code point, "U+201A".                                            *)

\* self.quote_chars in insertion order, as the interpreter reads lines 315-324
QuoteChars ==
    <<<<<<"\"">>, <<"\"">>>>,
      <<<<"U+201E">>, <<"\"">>>>,
      <<<<"U+201F">>, <<"\"">>>>,
      <<<<":", " ", "\"", "'", "\"", ",", " ", " ", "#", " ", "l", "e", "f", "t", " ",
        "s", "i", "n", "g", "l", "e", " ", "q", "u", "o", "t", "a", "t", "i", "o", "n",
        " ", "m", "a", "r", "k", "\n", " ", " ", " ", " ", " ", " ", " ", " ", " ", " ",
        " ", " ">>, <<"'">>>>,
      <<<<"U+201A">>, <<"'">>>>,
      <<<<"U+201B">>, <<"'">>>>>>

\* self.dash_chars (lines 326-334)
DashChars ==
    <<<<<<"U+2013">>, <<"-">>>>,
      <<<<"U+2014">>, <<"-">>>>,
      <<<<"U+2015">>, <<"-">>>>,
      <<<<"U+2010">>, <<"-">>>>,
      <<<<"U+2011">>, <<"-">>>>,
      <<<<"U+2012">>, <<"-">>>>,
      <<<<"U+2212">>, <<"-">>>>>>

\* self.abbreviations (lines 337-346)
Abbreviations ==
    <<<<<<"U", ".", "S", ".">>, <<"U", "n", "i", "t", "e", "d", " ", "S", "t", "a", "t",
        "e", "s">>>>,
      <<<<"U", ".", "S", ".", "C", ".">>, <<"U", "n", "i", "t", "e", "d", " ", "S", "t",
        "a", "t", "e", "s", " ", "C", "o", "d", "e">>>>,
      <<<<"C", ".", "F", ".", "R", ".">>, <<"C", "o", "d", "e", " ", "o", "f", " ", "F",
        "e", "d", "e", "r", "a", "l", " ", "R", "e", "g", "u", "l", "a", "t", "i", "o",
        "n", "s">>>>,
      <<<<"F", "e", "d", ".", " ", "R", "e", "g", ".">>, <<"F", "e", "d", "e", "r", "a",
        "l", " ", "R", "e", "g", "i", "s", "t", "e", "r">>>>,
      <<<<"e", "t", " ", "a", "l", ".">>, <<"e", "t", " ", "a", "l", "i", "a">>>>,
      <<<<"e", "t", " ", "s", "e", "q", ".">>, <<"e", "t", " ", "s", "e", "q", "u", "e",
        "n", "t", "e", "s">>>>,
      <<<<"i", ".", "e", ".">>, <<"t", "h", "a", "t", " ", "i", "s">>>>,
      <<<<"e", ".", "g", ".">>, <<"f", "o", "r", " ", "e", "x", "a", "m", "p", "l",
        "e">>>>>>

\* self.contractions (lines 349-403)
Contractions ==
    <<<<<<"a", "i", "n", "'", "t">>, <<"i", "s", " ", "n", "o", "t">>>>,
      <<<<"a", "r", "e", "n", "'", "t">>, <<"a", "r", "e", " ", "n", "o", "t">>>>,
      <<<<"c", "a", "n", "'", "t">>, <<"c", "a", "n", "n", "o", "t">>>>,
      <<<<"c", "o", "u", "l", "d", "n", "'", "t">>, <<"c", "o", "u", "l", "d", " ", "n",
        "o", "t">>>>,
      <<<<"d", "i", "d", "n", "'", "t">>, <<"d", "i", "d", " ", "n", "o", "t">>>>,
      <<<<"d", "o", "e", "s", "n", "'", "t">>, <<"d", "o", "e", "s", " ", "n", "o",
        "t">>>>,
      <<<<"d", "o", "n", "'", "t">>, <<"d", "o", " ", "n", "o", "t">>>>,
      <<<<"h", "a", "d", "n", "'", "t">>, <<"h", "a", "d", " ", "n", "o", "t">>>>,
      <<<<"h", "a", "s", "n", "'", "t">>, <<"h", "a", "s", " ", "n", "o", "t">>>>,
      <<<<"h", "a", "v", "e", "n", "'", "t">>, <<"h", "a", "v", "e", " ", "n", "o",
        "t">>>>,
      <<<<"h", "e", "'", "d">>, <<"h", "e", " ", "w", "o", "u", "l", "d">>>>,
      <<<<"h", "e", "'", "l", "l">>, <<"h", "e", " ", "w", "i", "l", "l">>>>,
      <<<<"h", "e", "'", "s">>, <<"h", "e", " ", "i", "s">>>>,
      <<<<"I", "'", "d">>, <<"I", " ", "w", "o", "u", "l", "d">>>>,
      <<<<"I", "'", "l", "l">>, <<"I", " ", "w", "i", "l", "l">>>>,
      <<<<"I", "'", "m">>, <<"I", " ", "a", "m">>>>,
      <<<<"I", "'", "v", "e">>, <<"I", " ", "h", "a", "v", "e">>>>,
      <<<<"i", "s", "n", "'", "t">>, <<"i", "s", " ", "n", "o", "t">>>>,
      <<<<"i", "t", "'", "s">>, <<"i", "t", " ", "i", "s">>>>,
      <<<<"l", "e", "t", "'", "s">>, <<"l", "e", "t", " ", "u", "s">>>>,
      <<<<"m", "i", "g", "h", "t", "n", "'", "t">>, <<"m", "i", "g", "h", "t", " ", "n",
        "o", "t">>>>,
      <<<<"m", "u", "s", "t", "n", "'", "t">>, <<"m", "u", "s", "t", " ", "n", "o",
        "t">>>>,
      <<<<"s", "h", "a", "n", "'", "t">>, <<"s", "h", "a", "l", "l", " ", "n", "o",
        "t">>>>,
      <<<<"s", "h", "e", "'", "d">>, <<"s", "h", "e", " ", "w", "o", "u", "l", "d">>>>,
      <<<<"s", "h", "e", "'", "l", "l">>, <<"s", "h", "e", " ", "w", "i", "l", "l">>>>,
      <<<<"s", "h", "e", "'", "s">>, <<"s", "h", "e", " ", "i", "s">>>>,
      <<<<"s", "h", "o", "u", "l", "d", "n", "'", "t">>, <<"s", "h", "o", "u", "l", "d",
        " ", "n", "o", "t">>>>,
      <<<<"t", "h", "a", "t", "'", "s">>, <<"t", "h", "a", "t", " ", "i", "s">>>>,
      <<<<"t", "h", "e", "r", "e", "'", "s">>, <<"t", "h", "e", "r", "e", " ", "i",
        "s">>>>,
      <<<<"t", "h", "e", "y", "'", "d">>, <<"t", "h", "e", "y", " ", "w", "o", "u", "l",
        "d">>>>,
      <<<<"t", "h", "e", "y", "'", "l", "l">>, <<"t", "h", "e", "y", " ", "w", "i", "l",
        "l">>>>,
      <<<<"t", "h", "e", "y", "'", "r", "e">>, <<"t", "h", "e", "y", " ", "a", "r",
        "e">>>>,
      <<<<"t", "h", "e", "y", "'", "v", "e">>, <<"t", "h", "e", "y", " ", "h", "a", "v",
        "e">>>>,
      <<<<"w", "e", "'", "d">>, <<"w", "e", " ", "w", "o", "u", "l", "d">>>>,
      <<<<"w", "e", "'", "r", "e">>, <<"w", "e", " ", "a", "r", "e">>>>,
      <<<<"w", "e", "'", "v", "e">>, <<"w", "e", " ", "h", "a", "v", "e">>>>,
      <<<<"w", "e", "r", "e", "n", "'", "t">>, <<"w", "e", "r", "e", " ", "n", "o",
        "t">>>>,
      <<<<"w", "h", "a", "t", "'", "l", "l">>, <<"w", "h", "a", "t", " ", "w", "i", "l",
        "l">>>>,
      <<<<"w", "h", "a", "t", "'", "r", "e">>, <<"w", "h", "a", "t", " ", "a", "r",
        "e">>>>,
      <<<<"w", "h", "a", "t", "'", "s">>, <<"w", "h", "a", "t", " ", "i", "s">>>>,
      <<<<"w", "h", "a", "t", "'", "v", "e">>, <<"w", "h", "a", "t", " ", "h", "a", "v",
        "e">>>>,
      <<<<"w", "h", "e", "r", "e", "'", "s">>, <<"w", "h", "e", "r", "e", " ", "i",
        "s">>>>,
      <<<<"w", "h", "o", "'", "d">>, <<"w", "h", "o", " ", "w", "o", "u", "l", "d">>>>,
      <<<<"w", "h", "o", "'", "l", "l">>, <<"w", "h", "o", " ", "w", "i", "l", "l">>>>,
      <<<<"w", "h", "o", "'", "r", "e">>, <<"w", "h", "o", " ", "a", "r", "e">>>>,
      <<<<"w", "h", "o", "'", "s">>, <<"w", "h", "o", " ", "i", "s">>>>,
      <<<<"w", "h", "o", "'", "v", "e">>, <<"w", "h", "o", " ", "h", "a", "v", "e">>>>,
      <<<<"w", "o", "n", "'", "t">>, <<"w", "i", "l", "l", " ", "n", "o", "t">>>>,
      <<<<"w", "o", "u", "l", "d", "n", "'", "t">>, <<"w", "o", "u", "l", "d", " ", "n",
        "o", "t">>>>,
      <<<<"y", "o", "u", "'", "d">>, <<"y", "o", "u", " ", "w", "o", "u", "l", "d">>>>,
      <<<<"y", "o", "u", "'", "l", "l">>, <<"y", "o", "u", " ", "w", "i", "l", "l">>>>,
      <<<<"y", "o", "u", "'", "r", "e">>, <<"y", "o", "u", " ", "a", "r", "e">>>>,
      <<<<"y", "o", "u", "'", "v", "e">>, <<"y", "o", "u", " ", "h", "a", "v", "e">>>>>>

\* text.replace(old, new): the occurrences of old from the left, not overlapping
RECURSIVE ReplaceFrom(_, _, _, _)
ReplaceFrom(text, i, old, new) ==
    LET matches == {k \in i..(Len(text) - Len(old) + 1) :
                        SubSeq(text, k, k + Len(old) - 1) = old}
    IN  IF matches = {} THEN SubSeq(text, i, Len(text))
        ELSE LET k == CHOOSE m \in matches : \A n \in matches : m <= n
             IN  SubSeq(text, i, k - 1) \o new
                     \o ReplaceFrom(text, k + Len(old), old, new)

Replace(text, old, new) == ReplaceFrom(text, 1, old, new)

\* for char, replacement in table.items(): text = text.replace(char, replacement),
\* from entry i on
RECURSIVE ReplaceAll(_, _, _)
ReplaceAll(text, table, i) ==
    IF i > Len(table) THEN text
    ELSE LET t == Replace(text, table[i][1], table[i][2])
         IN  IF t = text THEN ReplaceAll(text, table, i + 1) ELSE ReplaceAll(t, table, i + 1)

\* the last position of the run of "." that starts at position k of text
DotRun(text, k) ==
    CHOOSE j \in k..Len(text) :
        /\ \A m \in k..j : text[m] = "."
        /\ j = Len(text) \/ text[j + 1] # "."

\* re.sub(r'\.{2,}', '...', text), from position i on
RECURSIVE NormalizeEllipsesFrom(_, _)
NormalizeEllipsesFrom(text, i) ==
    LET matches == {k \in i..(Len(text) - 1) : text[k] = "." /\ text[k + 1] = "."}
    IN  IF matches = {} THEN SubSeq(text, i, Len(text))
        ELSE LET k == CHOOSE m \in matches : \A n \in matches : m <= n
             IN  SubSeq(text, i, k - 1) \o <<".", ".", ".">>
                     \o NormalizeEllipsesFrom(text, DotRun(text, k) + 1)

NormalizeEllipses(text) == NormalizeEllipsesFrom(text, 1)

\* \w of a str pattern, among the characters the model's texts use
WordChars == Alnum \cup {"_"}

\* \b between positions k and k+1 of text
WordBoundary(text, k) ==
    (k >= 1 /\ k <= Len(text) /\ text[k] \in WordChars)
        # (k + 1 >= 1 /\ k + 1 <= Len(text) /\ text[k + 1] \in WordChars)

\* re.sub(r'\b' + re.escape(word) + r'\b', expansion, text), from position i on
RECURSIVE SubWord(_, _, _, _)
SubWord(text, i, word, expansion) ==
    LET matches == {k \in i..(Len(text) - Len(word) + 1) :
                        /\ SubSeq(text, k, k + Len(word) - 1) = word
                        /\ WordBoundary(text, k - 1)
                        /\ WordBoundary(text, k + Len(word) - 1)}
    IN  IF matches = {} THEN SubSeq(text, i, Len(text))
        ELSE LET k == CHOOSE m \in matches : \A n \in matches : m <= n
             IN  SubSeq(text, i, k - 1) \o expansion
                     \o SubWord(text, k + Len(word), word, expansion)

\* for word, expansion in table.items(): text = re.sub(...), from entry i on
RECURSIVE SubWords(_, _, _)
SubWords(text, table, i) ==
    IF i > Len(table) THEN text
    ELSE LET t == SubWord(text, 1, table[i][1], table[i][2])
         IN  IF t = text THEN SubWords(text, table, i + 1) ELSE SubWords(t, table, i + 1)

\* TextNormalizer.process, the normalization steps (lines 421-444)
Normalize(self, text) ==
    LET t1 == IF self.normalize_quotes THEN ReplaceAll(text, QuoteChars, 1) ELSE text
        t2 == IF self.normalize_dashes THEN ReplaceAll(t1, DashChars, 1) ELSE t1
        t3 == IF self.normalize_ellipses THEN NormalizeEllipses(t2) ELSE t2
        t4 == IF self.normalize_ampersands THEN Replace(t3, <<"&">>, <<"a", "n", "d">>)
              ELSE t3
        t5 == IF self.normalize_abbreviations THEN SubWords(t4, Abbreviations, 1) ELSE t4
    IN  IF self.expand_contractions THEN SubWords(t5, Contractions, 1) ELSE t5

\* TextNormalizer.process: [raised, heap, result]
TextNormalizerProcess(self, h, doc) ==
    IF doc = NoneRef
    THEN [raised |-> TRUE, heap |-> h, result |-> NoneRef]
    ELSE [raised |-> FALSE,
          heap |-> [h EXCEPT ![doc] =
                       AddProcessingStep(
                           [@ EXCEPT !.text = Normalize(self, h[doc].text)],
                           "text_normalization",
                           [normalize_quotes |-> self.normalize_quotes,
                            normalize_dashes |-> self.normalize_dashes,
                            normalize_ellipses |-> self.normalize_ellipses,
                            normalize_ampersands |-> self.normalize_ampersands,
                            normalize_abbreviations |-> self.normalize_abbreviations,
                            expand_contractions |-> self.expand_contractions])],
          result |-> doc]

----------------------------------------------------------------------------
(* QualityScorer (filtering.py) *)

\* text.split(): the maximal runs of non-whitespace characters, word being the
\* run in progress
RECURSIVE Split(_, _)
Split(text, word) ==
    IF text = <<>>
    THEN IF word = <<>> THEN <<>> ELSE <<word>>
    ELSE IF Head(text) \in Whitespace
    THEN (IF word = <<>> THEN <<>> ELSE <<word>>) \o Split(Tail(text), <<>>)
    ELSE Split(Tail(text), Append(word, Head(text)))

\* text.count(c)
Count(text, c) == Cardinality({i \in 1..Len(text) : text[i] = c})

\* sum(len(word) for word in words)
RECURSIVE SumLen(_)
SumLen(words) == IF words = <<>> THEN 0 ELSE Len(Head(words)) + SumLen(Tail(words))

One == <<1, 1>>

Zero == <<0, 1>>

\* QualityScorer.process, the metrics dict (lines 80-163): every value a fraction
QualityMetrics(self, rec) ==
    LET text == rec.text
        text_length == Len(text)
        length_score ==
            IF self.max_length # <<>>
            THEN LET max_length == self.max_length[1]
                     inner == IF max_length > self.min_length
                              THEN Frac(text_length - self.min_length,
                                        max_length - self.min_length)
                              ELSE Zero
                 IN  IF text_length > max_length
                     THEN FracMax(Zero, FracSub(One, Frac(text_length - max_length,
                                                           max_length)))
                     ELSE FracMin(One, FracMax(Zero, inner))
            ELSE IF text_length >= self.min_length
                 THEN One
                 ELSE Frac(text_length, self.min_length)
        words == Split(text, <<>>)
        word_count == Len(words)
        avg_word_length ==
            IF word_count > 0 THEN Frac(SumLen(words), word_count) ELSE Zero
        avg_word_length_score ==
            IF word_count > 0
            THEN IF ~FracGeq(avg_word_length, self.min_avg_word_length)
                 THEN FracDiv(avg_word_length, self.min_avg_word_length)
                 ELSE IF ~FracGeq(self.max_avg_word_length, avg_word_length)
                 THEN FracMax(Zero,
                              FracSub(One, FracDiv(FracSub(avg_word_length,
                                                           self.max_avg_word_length),
                                                   self.max_avg_word_length)))
                 ELSE One
            ELSE Zero
        recorded == DictGetDefault(rec.processing_metadata, "sentence_count", 0)
        estimate == Count(text, ".") + Count(text, "!") + Count(text, "?")
        sentence_count ==
            IF recorded = 0 THEN (IF estimate > 1 THEN estimate ELSE 1) ELSE recorded
        sentence_count_score ==
            FracMin(One, Frac(sentence_count, self.min_sentence_count))
        unique_words == Cardinality(Range(words))
        repetition_ratio ==
            IF word_count > 0 THEN FracSub(One, Frac(unique_words, word_count)) ELSE One
        repetition_score ==
            IF word_count > 0
            THEN FracMax(Zero,
                         FracMin(One, FracSub(One, FracDiv(repetition_ratio,
                                                           self.max_repetition_ratio))))
            ELSE Zero
        alphanumeric_chars == Cardinality({i \in 1..Len(text) : text[i] \in Alnum})
        alphanumeric_ratio ==
            IF text_length > 0 THEN Frac(alphanumeric_chars, text_length) ELSE Zero
        alphanumeric_score ==
            IF ~FracGeq(alphanumeric_ratio, self.min_alphanumeric_ratio)
            THEN FracDiv(alphanumeric_ratio, self.min_alphanumeric_ratio)
            ELSE One
    IN  [text_length |-> FracOfInt(text_length),
         length_score |-> length_score,
         word_count |-> FracOfInt(word_count),
         avg_word_length |-> avg_word_length,
         avg_word_length_score |-> avg_word_length_score,
         sentence_count |-> FracOfInt(sentence_count),
         sentence_count_score |-> sentence_count_score,
         repetition_ratio |-> repetition_ratio,
         repetition_score |-> repetition_score,
         alphanumeric_ratio |-> alphanumeric_ratio,
         alphanumeric_score |-> alphanumeric_score]

\* sum(metrics[metric] * weight for metric, weight in self.weights.items()
\*     if metric in metrics), from entry i of the weights on
RECURSIVE WeightedSum(_, _, _)
WeightedSum(weights, metrics, i) ==
    IF i > Len(weights) THEN Zero
    ELSE LET rest == WeightedSum(weights, metrics, i + 1)
         IN  IF weights[i][1] \in DOMAIN metrics
             THEN FracAdd(FracMul(metrics[weights[i][1]], weights[i][2]), rest)
             ELSE rest

\* QualityScorer.process: [raised, heap, result]
QualityScorerProcess(self, h, doc) ==
    IF doc = NoneRef
    THEN [raised |-> TRUE, heap |-> h, result |-> NoneRef]
    ELSE LET metrics == QualityMetrics(self, h[doc])
             quality_score == WeightedSum(self.weights, metrics, 1)
         IN  [raised |-> FALSE,
              heap |-> [h EXCEPT ![doc] =
                           AddProcessingStep(
                               [@ EXCEPT !.quality_metrics = metrics,
                                         !.quality_score = quality_score],
                               "quality_assessment",
                               [m \in DOMAIN metrics \cup {"quality_score"} |->
                                    IF m = "quality_score" THEN quality_score
                                    ELSE metrics[m]])],
              result |-> doc]

----------------------------------------------------------------------------
(* ProcessingPipeline (base.py) *)

\* a loop that calls process on every processor
IsAnything(processor) == TRUE

\* isinstance(processor, Processor)
IsProcessor(processor) ==
    processor.kind \in {"BasicTextCleaner", "TextNormalizer", "QualityScorer", "ContentFilter"}

\* isinstance(processor, BatchProcessor)
IsBatchProcessor(processor) == processor.kind = "Deduplicator"

\* processor.process(doc) for the processors of StageChoices; a Deduplicator
\* has no method process (AttributeError)
ProcessOfChoice(processor, h, doc) ==
    IF processor.kind = "BasicTextCleaner" THEN BasicTextCleanerProcess(processor, h, doc)
    ELSE IF processor.kind = "ContentFilter" THEN ContentFilterProcess(processor, h, doc)
    ELSE [raised |-> TRUE, heap |-> h, result |-> NoneRef]

\* processor.process(doc)
Process(processor, h, doc) ==
    IF processor.kind = "QualityScorer" THEN QualityScorerProcess(processor, h, doc)
    ELSE IF processor.kind = "TextNormalizer" THEN TextNormalizerProcess(processor, h, doc)
    ELSE ProcessOfChoice(processor, h, doc)

\* a loop over the batch that stops after its first element
ExhaustedAfterFirst(batch, i) == i > Len(batch) \/ i > 1

\* the loop over current_batch (base.py 238, 245) has no element left at index i
Exhausted(batch, i) == i > Len(batch)

\* the step a stage application leaves in trace: the processor's index, the
\* document, and whether a ContentFilter rejected it
Applied(procs, i, h, doc) ==
    [stage |-> i, doc |-> doc,
     rejected |-> procs[i].kind = "ContentFilter" /\ FilterVerdict(procs[i], h[doc]) # <<>>]

\* process_document, the loop over self.processors from processor i on
RECURSIVE ProcessDocumentLoop(_, _, _, _, _)
ProcessDocumentLoop(procs, i, h, doc, applied) ==
    IF i > Len(procs)
    THEN [raised |-> FALSE, heap |-> h, result |-> doc, applied |-> applied]
    ELSE IF IsProcessor(procs[i])
    THEN LET r == ProcessOfChoice(procs[i], h, doc)
         IN  IF r.raised
             THEN [raised |-> TRUE, heap |-> r.heap, result |-> NoneRef, applied |-> applied]
             ELSE ProcessDocumentLoop(procs, i + 1, r.heap, r.result,
                                      Append(applied, Applied(procs, i, h, doc)))
    ELSE ProcessDocumentLoop(procs, i + 1, h, doc, applied)

\* the slice without its end: current_batch[i:]
SubBatchToEnd(batch, i, size) == SubSeq(batch, i, Len(batch))

\* sub_batch = current_batch[i:i+batch_size], i counted from 1
SubBatch(batch, i, size) ==
    SubSeq(batch, i, IF i + size - 1 < Len(batch) THEN i + size - 1 ELSE Len(batch))

----------------------------------------------------------------------------
(* Configurations and inputs *)

BasicTextCleaner(lowercase) == [kind |-> "BasicTextCleaner", lowercase |-> lowercase]

ContentFilter(min_quality_score, min_length, max_length, required_patterns, excluded_patterns, keep_document) ==
    [kind |-> "ContentFilter", min_quality_score |-> min_quality_score,
     min_length |-> min_length, max_length |-> max_length,
     required_patterns |-> required_patterns, excluded_patterns |-> excluded_patterns,
     keep_document |-> keep_document]

Deduplicator(method, similarity_threshold, hash_function, ngram_size, keep_first) ==
    [kind |-> "Deduplicator", method |-> method,
     similarity_threshold |-> similarity_threshold, hash_function |-> hash_function,
     ngram_size |-> ngram_size, keep_first |-> keep_first]

\* a constructor that validates nothing
DeduplicatorInitUnvalidated(method, similarity_threshold, hash_function, ngram_size, keep_first) ==
    [raised |-> FALSE,
     self |-> Deduplicator(method, similarity_threshold, hash_function, ngram_size,
                           keep_first)]

\* Deduplicator(...), the call: the fields are assigned, then the method and the
\* hash function are validated (ValueError)
DeduplicatorInit(method, similarity_threshold, hash_function, ngram_size, keep_first) ==
    [raised |-> \/ method \notin {"exact", "simhash", "minhash"}
                \/ hash_function \notin {"md5", "sha1", "sha256"},
     self |-> Deduplicator(method, similarity_threshold, hash_function, ngram_size,
                           keep_first)]

TextNormalizer(normalize_quotes, normalize_dashes, normalize_ellipses, normalize_ampersands, normalize_abbreviations, expand_contractions) ==
    [kind |-> "TextNormalizer", normalize_quotes |-> normalize_quotes,
     normalize_dashes |-> normalize_dashes, normalize_ellipses |-> normalize_ellipses,
     normalize_ampersands |-> normalize_ampersands,
     normalize_abbreviations |-> normalize_abbreviations,
     expand_contractions |-> expand_contractions]

\* the default weights of QualityScorer.__init__ (lines 55-61), in dict order
DefaultWeights ==
    <<<<"length_score", <<2, 10>>>>, <<"avg_word_length_score", <<1, 10>>>>,
      <<"sentence_count_score", <<2, 10>>>>, <<"repetition_score", <<2, 10>>>>,
      <<"alphanumeric_score", <<3, 10>>>>>>

QualityScorer(min_length, max_length, min_avg_word_length, max_avg_word_length, min_sentence_count, max_repetition_ratio, min_alphanumeric_ratio, weights) ==
    [kind |-> "QualityScorer", min_length |-> min_length, max_length |-> max_length,
     min_avg_word_length |-> min_avg_word_length,
     max_avg_word_length |-> max_avg_word_length,
     min_sentence_count |-> min_sentence_count,
     max_repetition_ratio |-> max_repetition_ratio,
     min_alphanumeric_ratio |-> min_alphanumeric_ratio,
     weights |-> IF weights = <<>> THEN DefaultWeights ELSE weights]

\* the stages pipelines are built from
StageChoices ==
    {BasicTextCleaner(TRUE),
     ContentFilter(<<1, 2>>, 2, <<>>, <<>>, <<>>, TRUE),
     ContentFilter(<<1, 2>>, 2, <<>>, <<>>, <<>>, FALSE),
     Deduplicator("exact", <<9, 10>>, "md5", 3, TRUE),
     Deduplicator("exact", <<9, 10>>, "md5", 3, FALSE),
     Deduplicator("minhash", <<1, 2>>, "md5", 1, TRUE)}

\* ProcessingPipeline.__init__ rejects an empty list
Pipelines == SeqsUpTo(StageChoices, MaxStages) \ {<<>>}

PipelineTexts == {<<"a">>, <<"A">>, <<"a", "b">>}

\* Documents of one process_batch call; document i has id i
PipelineBatches ==
    {[i \in 1..Len(texts) |-> Document(i, texts[i])] :
        texts \in SeqsUpTo(PipelineTexts, MaxBatch)}

BatchSizes == {2, MaxBatch}

----------------------------------------------------------------------------
(* The pipeline as a state machine *)

Init ==
    /\ processors \in Pipelines
    /\ hash_seed = 1
    /\ batch_size = 1
    /\ documents = <<>>
    /\ heap = <<>>
    /\ current_batch = <<>>
    /\ stage_idx = 1
    /\ doc_idx = 1
    /\ all_results = <<>>
    /\ pc = "idle"
    /\ output = <<>>
    /\ trace = <<>>
    /\ runs = <<>>

\* process_batch is called: the documents are converted (base.py 222-231)
ProcessBatchCall ==
    /\ pc = "idle"
    /\ \E docs \in PipelineBatches, size \in BatchSizes :
        /\ documents' = docs
        /\ batch_size' = size
        /\ heap' = [i \in 1..Len(docs) |-> FromDocument(docs[i])]
        /\ current_batch' = [i \in 1..Len(docs) |-> i]
    /\ stage_idx' = 1
    /\ doc_idx' = 1
    /\ all_results' = <<>>
    /\ output' = <<>>
    /\ trace' = <<>>
    /\ pc' = "running"
    /\ UNCHANGED <<processors, hash_seed, runs>>

\* one element of [processor.process(doc) for doc in current_batch]
ApplyProcessor ==
    /\ pc = "running"
    /\ stage_idx <= Len(processors)
    /\ ~IsBatchProcessor(processors[stage_idx])
    /\ ~Exhausted(current_batch, doc_idx)
    /\ LET doc == current_batch[doc_idx]
           r == ProcessOfChoice(processors[stage_idx], heap, doc)
       IN  IF r.raised
           THEN /\ pc' = "failed"
                /\ UNCHANGED <<heap, all_results, doc_idx, trace>>
           ELSE /\ heap' = r.heap
                /\ all_results' = Append(all_results, r.result)
                /\ doc_idx' = doc_idx + 1
                /\ trace' = Append(trace, Applied(processors, stage_idx, heap, doc))
                /\ pc' = pc
    /\ UNCHANGED <<processors, batch_size, hash_seed, documents, current_batch,
                   stage_idx, output, runs>>

\* one sub-batch of a batch processor (base.py 238-241)
ApplyBatchProcessor ==
    /\ pc = "running"
    /\ stage_idx <= Len(processors)
    /\ IsBatchProcessor(processors[stage_idx])
    /\ ~Exhausted(current_batch, doc_idx)
    /\ LET sub_batch == SubBatch(current_batch, doc_idx, batch_size)
           r == DeduplicatorProcessBatch(processors[stage_idx], heap, sub_batch, hash_seed)
       IN  IF r.raised
           THEN /\ pc' = "failed"
                /\ UNCHANGED <<heap, all_results, doc_idx, trace>>
           ELSE /\ heap' = r.heap
                /\ all_results' = all_results \o r.result
                /\ doc_idx' = doc_idx + batch_size
                /\ trace' = trace \o [k \in 1..Len(sub_batch) |->
                                         Applied(processors, stage_idx, heap, sub_batch[k])]
                /\ pc' = pc
    /\ UNCHANGED <<processors, batch_size, hash_seed, documents, current_batch,
                   stage_idx, output, runs>>

\* the processor has seen the whole batch: current_batch = its results
NextProcessor ==
    /\ pc = "running"
    /\ stage_idx <= Len(processors)
    /\ Exhausted(current_batch, doc_idx)
    /\ current_batch' = all_results
    /\ all_results' = <<>>
    /\ stage_idx' = stage_idx + 1
    /\ doc_idx' = 1
    /\ UNCHANGED <<processors, batch_size, hash_seed, documents, heap, pc, output,
                   trace, runs>>

\* for doc in current_batch: yield doc
YieldDocuments ==
    /\ pc = "running"
    /\ stage_idx > Len(processors)
    /\ output' = current_batch
    /\ pc' = "done"
    /\ UNCHANGED <<processors, batch_size, hash_seed, documents, heap, current_batch,
                   stage_idx, doc_idx, all_results, trace, runs>>

\* process_document on one Document (base.py 184-204)
ProcessDocument ==
    /\ pc = "idle"
    /\ \E text \in PipelineTexts :
        LET doc == Document(1, text)
            r == ProcessDocumentLoop(processors, 1, <<FromDocument(doc)>>, 1, <<>>)
        IN  /\ documents' = <<doc>>
            /\ heap' = r.heap
            /\ trace' = r.applied
            /\ output' = IF r.raised THEN <<>> ELSE <<r.result>>
            /\ pc' = IF r.raised THEN "raised" ELSE "returned"
    /\ current_batch' = <<>>
    /\ all_results' = <<>>
    /\ stage_idx' = 1
    /\ doc_idx' = 1
    /\ UNCHANGED <<processors, batch_size, hash_seed, runs>>

\* the caller is ready for its next call of the same pipeline
NextCall ==
    /\ pc \in {"done", "failed", "raised", "returned"}
    /\ pc' = "idle"
    /\ documents' = <<>>
    /\ heap' = <<>>
    /\ current_batch' = <<>>
    /\ all_results' = <<>>
    /\ output' = <<>>
    /\ trace' = <<>>
    /\ stage_idx' = 1
    /\ doc_idx' = 1
    /\ batch_size' = 1
    /\ UNCHANGED <<processors, hash_seed, runs>>

Next ==
    \/ ProcessBatchCall
    \/ ApplyProcessor
    \/ ApplyBatchProcessor
    \/ NextProcessor
    \/ YieldDocuments
    \/ ProcessDocument
    \/ NextCall

Spec == Init /\ [][Next]_vars


----------------------------------------------------------------------------
(* Stages applied to the records of a batch in any sequence *)

\* the stages of this specification: each per-document stage, and a Deduplicator
StageProcessors ==
    {BasicTextCleaner(TRUE),
     TextNormalizer(TRUE, TRUE, TRUE, TRUE, FALSE, FALSE),
     QualityScorer(2, <<>>, <<1, 1>>, <<2, 1>>, 1, <<3, 10>>, <<7, 10>>, <<>>),
     QualityScorer(1, <<3>>, <<2, 1>>, <<3, 1>>, 2, <<1, 2>>, <<1, 2>>, <<>>),
     ContentFilter(<<1, 2>>, 2, <<>>, <<>>, <<>>, TRUE),
     ContentFilter(<<9, 10>>, 0, <<>>, <<>>, <<>>, FALSE),
     Deduplicator("exact", <<9, 10>>, "md5", 3, TRUE)}

StageTexts == {<<"a">>, <<"A", "&">>, <<"a", " ", "a", ".">>}

StageBatches ==
    {[i \in 1..Len(texts) |-> Document(i, texts[i])] :
        texts \in SeqsUpTo(StageTexts, 2) \ {<<>>}}

\* the caller has a batch of records made from documents; processors lists the
\* stages applied so far, trace the record (0: the whole batch) of each
InitStages ==
    /\ processors = <<>>
    /\ documents \in StageBatches
    /\ heap = [i \in 1..Len(documents) |-> FromDocument(documents[i])]
    /\ hash_seed = 1
    /\ batch_size = 1
    /\ current_batch = <<>>
    /\ stage_idx = 1
    /\ doc_idx = 1
    /\ all_results = <<>>
    /\ pc = "idle"
    /\ output = <<>>
    /\ trace = <<>>
    /\ runs = <<>>

\* processor.process(record) for some per-document stage and record
StageProcess ==
    /\ Len(processors) < MaxStages
    /\ \E processor \in {p \in StageProcessors : IsProcessor(p)}, doc \in 1..Len(heap) :
        LET r == Process(processor, heap, doc)
        IN  /\ ~r.raised
            /\ processors' = Append(processors, processor)
            /\ heap' = r.heap
            /\ output' = <<r.result>>
            /\ trace' = Append(trace, Applied(processors', Len(processors'), heap, doc))
    /\ UNCHANGED <<batch_size, hash_seed, documents, current_batch, stage_idx, doc_idx,
                   all_results, pc, runs>>

\* processor.process_batch(records) for some batch stage, on all records
StageProcessBatch ==
    /\ Len(processors) < MaxStages
    /\ \E processor \in {p \in StageProcessors : IsBatchProcessor(p)} :
        LET docs == [i \in 1..Len(heap) |-> i]
            r == DeduplicatorProcessBatch(processor, heap, docs, hash_seed)
        IN  /\ ~r.raised
            /\ processors' = Append(processors, processor)
            /\ heap' = r.heap
            /\ output' = r.result
            /\ trace' = trace \o [k \in 1..Len(docs) |->
                                    Applied(processors', Len(processors'), heap, docs[k])]
    /\ UNCHANGED <<batch_size, hash_seed, documents, current_batch, stage_idx, doc_idx,
                   all_results, pc, runs>>

NextStages ==
    \/ StageProcess
    \/ StageProcessBatch

SpecStages == InitStages /\ [][NextStages]_vars

----------------------------------------------------------------------------
(* Deduplicator.process_batch on its own *)

DedupTexts == {<<"a">>, <<"b", "c">>, <<"a", "b", "c">>}

\* ids of a batch of n documents, equal ids allowed: every pattern of equal
\* and distinct ids, each with its ids numbered in order of first occurrence
IdPatterns(n) ==
    {ids \in [1..n -> 1..n] :
        \A i \in 1..n : \/ ids[i] = 1
                        \/ \E k \in 1..(i - 1) : ids[k] = ids[i] - 1}

DedupBatches ==
    UNION {{[i \in 1..n |-> Document(ids[i], texts[i])] :
                ids \in IdPatterns(n), texts \in [1..n -> DedupTexts]} : n \in 0..MaxBatch}

DedupConfigs ==
    {Deduplicator("exact", <<9, 10>>, "md5", 3, keep_first) : keep_first \in BOOLEAN}
    \cup {Deduplicator(method, threshold, "md5", n, keep_first) :
            method \in {"simhash", "minhash"}, threshold \in {<<1, 3>>, <<1, 2>>},
            n \in {1, 2}, keep_first \in BOOLEAN}
    \cup {Deduplicator("simhash", <<1, 1>>, "md5", 3, keep_first) : keep_first \in BOOLEAN}

\* the duplicate flags a run left on the documents, in batch order
Partition(h) ==
    [i \in 1..Len(h) |->
        [duplicate |-> h[i].processing_metadata["duplicate"],
         duplicate_of |-> IF h[i].processing_metadata["duplicate"]
                          THEN <<h[i].processing_metadata["duplicate_of"]>> ELSE <<>>]]

InitDedup ==
    /\ processors \in {<<self>> : self \in DedupConfigs}
    /\ documents \in DedupBatches
    /\ hash_seed \in HashSeeds
    /\ batch_size = 1
    /\ heap = <<>>
    /\ current_batch = <<>>
    /\ stage_idx = 1
    /\ doc_idx = 1
    /\ all_results = <<>>
    /\ pc = "idle"
    /\ output = <<>>
    /\ trace = <<>>
    /\ runs = <<>>

\* Deduplicator.process_batch on fresh records of the documents
DeduplicatorRun ==
    /\ pc = "idle"
    /\ LET h == [i \in 1..Len(documents) |-> FromDocument(documents[i])]
           r == DeduplicatorProcessBatch(processors[1], h,
                                         [i \in 1..Len(documents) |-> i], hash_seed)
           run == [seed |-> hash_seed, partition |-> Partition(r.heap)]
       IN  /\ heap' = r.heap
           /\ output' = r.result
           /\ runs' = IF Len(runs) < 2 THEN Append(runs, run) ELSE <<runs[2], run>>
    /\ pc' = "done"
    /\ UNCHANGED <<processors, batch_size, hash_seed, documents, current_batch,
                   stage_idx, doc_idx, all_results, trace>>

\* the next run happens in an interpreter process with salt hash_seed'
StartInterpreter ==
    /\ pc = "done"
    /\ hash_seed' \in HashSeeds
    /\ pc' = "idle"
    /\ UNCHANGED <<processors, batch_size, documents, heap, current_batch, stage_idx,
                   doc_idx, all_results, output, trace, runs>>

\* one run of the Deduplicator
NextDedup == DeduplicatorRun

SpecDedup == InitDedup /\ [][NextDedup]_vars

\* runs of the same Deduplicator on the same documents, in one interpreter
\* process or in several
NextRerun ==
    \/ DeduplicatorRun
    \/ StartInterpreter

SpecRerun == InitDedup /\ [][NextRerun]_vars

----------------------------------------------------------------------------
(* ContentFilter.process on its own *)

FilterTexts == SeqsUpTo(Chars, MaxTextLen)

FilterConfigs ==
    {ContentFilter(<<1, 2>>, min_length, max_length, required_patterns, excluded_patterns,
                   keep_document) :
        min_length \in {0, 2}, max_length \in {<<>>, <<1>>},
        required_patterns \in {<<>>, <<<<"a">>>>, <<<<"b">>, <<"a">>>>},
        excluded_patterns \in {<<>>, <<<<"a">>>>, <<<<"c">>, <<"a">>>>},
        keep_document \in BOOLEAN}

InitFilter ==
    /\ processors \in {<<self>> : self \in FilterConfigs}
    /\ \E text \in FilterTexts, quality_score \in {<<>>, <<1, 4>>, <<3, 4>>} :
        /\ documents = <<Document(1, text)>>
        /\ heap = <<[FromDocument(Document(1, text))
                        EXCEPT !.quality_score = quality_score]>>
    /\ hash_seed = 1
    /\ batch_size = 1
    /\ current_batch = <<>>
    /\ stage_idx = 1
    /\ doc_idx = 1
    /\ all_results = <<>>
    /\ pc = "idle"
    /\ output = <<>>
    /\ trace = <<>>
    /\ runs = <<>>

\* ContentFilter.process on the record
ContentFilterCall ==
    /\ pc = "idle"
    /\ LET r == ContentFilterProcess(processors[1], heap, 1)
       IN  /\ heap' = r.heap
           /\ output' = <<r.result>>
    /\ pc' = "returned"
    /\ UNCHANGED <<processors, batch_size, hash_seed, documents, current_batch,
                   stage_idx, doc_idx, all_results, trace, runs>>

NextFilter == ContentFilterCall

SpecFilter == InitFilter /\ [][NextFilter]_vars

----------------------------------------------------------------------------
(* QualityScorer.process on its own *)

ScorerChars == {"a", " ", "."}

ScorerTexts == SeqsUpTo(ScorerChars, MaxTextLen + 2)

\* configurations whose thresholds are all positive, max_length below, at and
\* above min_length, max_avg_word_length below and above min_avg_word_length
ScorerConfigs ==
    {QualityScorer(min_length, max_length, <<3, 2>>, max_avg_word_length,
                   min_sentence_count, max_repetition_ratio, min_alphanumeric_ratio,
                   weights) :
        min_length \in {1, 3}, max_length \in {<<>>, <<2>>, <<4>>},
        max_avg_word_length \in {<<1, 1>>, <<2, 1>>},
        min_sentence_count \in {1, 2},
        max_repetition_ratio \in {<<1, 4>>, <<2, 1>>},
        min_alphanumeric_ratio \in {<<1, 2>>, <<2, 1>>},
        weights \in {<<>>, <<<<"length_score", <<2, 1>>>>>>}}

\* the record is fresh from its document, or a tokenizer has recorded its
\* sentence count (tokenization.py 133)
InitScorer ==
    /\ processors \in {<<self>> : self \in ScorerConfigs}
    /\ \E text \in ScorerTexts, processing_metadata \in {EmptyDict, [sentence_count |-> 3]} :
        /\ documents = <<Document(1, text)>>
        /\ heap = <<[FromDocument(Document(1, text))
                        EXCEPT !.processing_metadata = processing_metadata]>>
    /\ hash_seed = 1
    /\ batch_size = 1
    /\ current_batch = <<>>
    /\ stage_idx = 1
    /\ doc_idx = 1
    /\ all_results = <<>>
    /\ pc = "idle"
    /\ output = <<>>
    /\ trace = <<>>
    /\ runs = <<>>

\* QualityScorer.process on the record
QualityScorerCall ==
    /\ pc = "idle"
    /\ LET r == QualityScorerProcess(processors[1], heap, 1)
       IN  /\ heap' = r.heap
           /\ output' = <<r.result>>
    /\ pc' = "returned"
    /\ UNCHANGED <<processors, batch_size, hash_seed, documents, current_batch,
                   stage_idx, doc_idx, all_results, trace, runs>>

NextScorer == QualityScorerCall

SpecScorer == InitScorer /\ [][NextScorer]_vars

----------------------------------------------------------------------------
(* TextNormalizer.process on its own *)

\* the fourth key of quote_chars: the text between the triple quotes of lines
\* 319 and 320
TripleQuotedKey == QuoteChars[4][1]

\* pieces of text the substitutions act on: the triple-quoted key around its
\* quotation mark, two quotation marks, an ampersand, a full stop and the
\* halves of a contraction
NormalizerPieces ==
    {SubSeq(TripleQuotedKey, 1, 3), SubSeq(TripleQuotedKey, 5, Len(TripleQuotedKey)),
     <<"'">>, <<"U+201A">>, <<"&">>, <<".">>, <<"c", "a", "n">>, <<"t">>}

\* a head, a middle and a tail, each a piece or empty
NormalizerTexts ==
    {head \o middle \o tail : head, middle, tail \in NormalizerPieces \cup {<<>>}}

NormalizerConfigs ==
    {TextNormalizer(normalize_quotes, normalize_dashes, normalize_ellipses,
                    normalize_ampersands, normalize_abbreviations, expand_contractions) :
        normalize_quotes \in BOOLEAN, normalize_dashes \in BOOLEAN,
        normalize_ellipses \in BOOLEAN, normalize_ampersands \in BOOLEAN,
        normalize_abbreviations \in BOOLEAN, expand_contractions \in BOOLEAN}

InitNormalizer ==
    /\ processors \in {<<self>> : self \in NormalizerConfigs}
    /\ \E text \in NormalizerTexts :
        /\ documents = <<Document(1, text)>>
        /\ heap = <<FromDocument(Document(1, text))>>
    /\ hash_seed = 1
    /\ batch_size = 1
    /\ current_batch = <<>>
    /\ stage_idx = 1
    /\ doc_idx = 1
    /\ all_results = <<>>
    /\ pc = "idle"
    /\ output = <<>>
    /\ trace = <<>>
    /\ runs = <<>>

\* TextNormalizer.process on the record, a first and a second time
TextNormalizerCall ==
    /\ pc \in {"idle", "once"}
    /\ LET r == TextNormalizerProcess(processors[1], heap, 1)
       IN  /\ heap' = r.heap
           /\ output' = <<r.result>>
    /\ pc' = IF pc = "idle" THEN "once" ELSE "twice"
    /\ UNCHANGED <<processors, batch_size, hash_seed, documents, current_batch,
                   stage_idx, doc_idx, all_results, trace, runs>>

NextNormalizer == TextNormalizerCall

SpecNormalizer == InitNormalizer /\ [][NextNormalizer]_vars

----------------------------------------------------------------------------
(* The per-document stages of a pipeline on a pool of workers *)

\* the per-document stages, with a filter that drops short records
WorkerProcessors ==
    {p \in StageProcessors : IsProcessor(p)}
        \cup {ContentFilter(<<1, 2>>, 2, <<>>, <<>>, <<>>, FALSE)}

\* pipelines of per-document stages
WorkerPipelines == SeqsUpTo(WorkerProcessors, MaxStages) \ {<<>>}

\* the records process_batch makes of the documents (base.py 224-229)
InitialRecords(docs) == [i \in 1..Len(docs) |-> FromDocument(docs[i])]

\* process_batch over per-document stages (base.py 234-245): stage s is applied
\* to the records of batch from position d on, then the stages after s; the
\* first call that raises ends it
RECURSIVE SequentialFrom(_, _, _, _, _)
SequentialFrom(procs, h, batch, s, d) ==
    IF s > Len(procs) THEN [raised |-> FALSE, heap |-> h, result |-> batch]
    ELSE IF d > Len(batch) THEN SequentialFrom(procs, h, batch, s + 1, 1)
    ELSE LET r == Process(procs[s], h, batch[d])
         IN  IF r.raised THEN [raised |-> TRUE, heap |-> r.heap, result |-> <<>>]
             ELSE SequentialFrom(procs, r.heap, [batch EXCEPT ![d] = r.result], s, d + 1)

\* one worker per record: stage_idx[i] is the stage record i is due for,
\* current_batch[i] what the last stage returned for it, pc[i] its worker's state
InitWorkers ==
    /\ processors \in WorkerPipelines
    /\ documents \in StageBatches
    /\ heap = InitialRecords(documents)
    /\ hash_seed = 1
    /\ batch_size = 1
    /\ current_batch = [i \in 1..Len(documents) |-> i]
    /\ stage_idx = [i \in 1..Len(documents) |-> 1]
    /\ doc_idx = 1
    /\ all_results = <<>>
    /\ pc = [i \in 1..Len(documents) |-> "running"]
    /\ output = <<>>
    /\ trace = <<>>
    /\ runs = <<>>

\* the worker of record i applies the stage the record is due for
WorkerStep(i) ==
    /\ pc[i] = "running"
    /\ LET r == Process(processors[stage_idx[i]], heap, current_batch[i])
       IN  /\ heap' = r.heap
           /\ current_batch' = [current_batch EXCEPT ![i] = r.result]
           /\ stage_idx' = [stage_idx EXCEPT ![i] = IF r.raised THEN @ ELSE @ + 1]
           /\ pc' = [pc EXCEPT ![i] = IF r.raised THEN "raised"
                                      ELSE IF stage_idx[i] = Len(processors) THEN "done"
                                      ELSE "running"]
    /\ UNCHANGED <<processors, batch_size, hash_seed, documents, doc_idx, all_results,
                   output, trace, runs>>

NextWorkers == \E i \in 1..Len(documents) : WorkerStep(i)

SpecWorkers == InitWorkers /\ [][NextWorkers]_vars

----------------------------------------------------------------------------
(* Construction of a Deduplicator, then its use *)

\* names a caller may pass, supported and not
MethodNames == {"exact", "simhash", "minhash", "lsh"}

HashFunctionNames == {"md5", "sha256", "crc32"}

\* the caller holds records of a batch and no Deduplicator yet; trace lists the
\* calls made on the class and its object
InitConstruct ==
    /\ processors = <<>>
    /\ documents \in DedupBatches
    /\ heap = InitialRecords(documents)
    /\ hash_seed \in HashSeeds
    /\ batch_size = 1
    /\ current_batch = <<>>
    /\ stage_idx = 1
    /\ doc_idx = 1
    /\ all_results = <<>>
    /\ pc = "idle"
    /\ output = <<>>
    /\ trace = <<>>
    /\ runs = <<>>

\* deduplicator = Deduplicator(method=..., hash_function=..., ...): the name is
\* bound only when the call returns
Construct ==
    /\ pc = "idle"
    /\ \E method \in MethodNames, hash_function \in HashFunctionNames,
          keep_first \in BOOLEAN :
        LET r == DeduplicatorInit(method, <<1, 2>>, hash_function, 1, keep_first)
        IN  /\ processors' = IF r.raised THEN processors ELSE <<r.self>>
            /\ pc' = IF r.raised THEN "raised" ELSE "constructed"
            /\ trace' = Append(trace, [call |-> "__init__", method |-> method,
                                       hash_function |-> hash_function])
    /\ UNCHANGED <<batch_size, hash_seed, documents, heap, current_batch, stage_idx,
                   doc_idx, all_results, output, runs>>

\* deduplicator.process_batch(records)
ConstructedProcessBatch ==
    /\ pc = "constructed"
    /\ LET r == DeduplicatorProcessBatch(processors[1], heap,
                                         [i \in 1..Len(heap) |-> i], hash_seed)
       IN  /\ heap' = r.heap
           /\ output' = r.result
    /\ trace' = Append(trace, [call |-> "process_batch", method |-> processors[1].method,
                               hash_function |-> processors[1].hash_function])
    /\ pc' = "done"
    /\ UNCHANGED <<processors, batch_size, hash_seed, documents, current_batch,
                   stage_idx, doc_idx, all_results, runs>>

NextConstruct ==
    \/ Construct
    \/ ConstructedProcessBatch

SpecConstruct == InitConstruct /\ [][NextConstruct]_vars

----------------------------------------------------------------------------
(* The Deduplicator stage of process_batch under different sub-batch sizes *)

\* the loop with sub-batches of two records whatever the size
RECURSIVE DeduplicateInSubBatchesOfTwo(_, _, _, _, _, _)
DeduplicateInSubBatchesOfTwo(self, h, batch, i, size, seed) ==
    IF i > Len(batch) THEN [heap |-> h, result |-> <<>>]
    ELSE LET r == DeduplicatorProcessBatch(self, h, SubBatch(batch, i, 2), seed)
             rest == DeduplicateInSubBatchesOfTwo(self, r.heap, batch, i + size, size, seed)
         IN  [heap |-> rest.heap, result |-> r.result \o rest.result]

\* the loop over sub-batches of process_batch (base.py 237-242) from position i
\* on: [heap, result], result being all_results
RECURSIVE DeduplicateInSubBatches(_, _, _, _, _, _)
DeduplicateInSubBatches(self, h, batch, i, size, seed) ==
    IF i > Len(batch) THEN [heap |-> h, result |-> <<>>]
    ELSE LET r == DeduplicatorProcessBatch(self, h, SubBatch(batch, i, size), seed)
             rest == DeduplicateInSubBatches(self, r.heap, batch, i + size, size, seed)
         IN  [heap |-> rest.heap, result |-> r.result \o rest.result]

\* batches of up to MaxBatch + 1 documents with distinct ids
RecallBatches ==
    UNION {{[i \in 1..n |-> Document(i, texts[i])] : texts \in [1..n -> DedupTexts]} :
              n \in 1..(MaxBatch + 1)}

RecallConfigs ==
    {Deduplicator(method, <<1, 2>>, "md5", 1, TRUE) : method \in {"exact", "simhash"}}

InitRecall ==
    /\ processors \in {<<self>> : self \in RecallConfigs}
    /\ documents \in RecallBatches
    /\ hash_seed = 1
    /\ batch_size = 1
    /\ heap = InitialRecords(documents)
    /\ current_batch = <<>>
    /\ stage_idx = 1
    /\ doc_idx = 1
    /\ all_results = <<>>
    /\ pc = "idle"
    /\ output = <<>>
    /\ trace = <<>>
    /\ runs = <<>>

\* pipeline.process_batch(documents, batch_size) with the Deduplicator as its
\* only stage, a first and a second time; runs keeps the sub-batch size and the
\* records marked duplicate of each call
ProcessBatchWithSize ==
    /\ Len(runs) < 2
    /\ \E size \in 1..(MaxBatch + 1) :
        LET r == DeduplicateInSubBatches(processors[1], InitialRecords(documents),
                                         [i \in 1..Len(documents) |-> i], 1, size,
                                         hash_seed)
            run == [batch_size |-> size,
                    duplicates |-> {i \in 1..Len(documents) :
                                        DictGetDefault(r.heap[i].processing_metadata,
                                                       "duplicate", FALSE)}]
        IN  /\ batch_size' = size
            /\ heap' = r.heap
            /\ output' = r.result
            /\ runs' = Append(runs, run)
    /\ pc' = "done"
    /\ UNCHANGED <<processors, hash_seed, documents, current_batch, stage_idx, doc_idx,
                   all_results, trace>>

NextRecall == ProcessBatchWithSize

SpecRecall == InitRecall /\ [][NextRecall]_vars

----------------------------------------------------------------------------
(* BasicTextCleaner.process with max_line_length                            *)

\* text.split('\n'): the pieces between the newlines, line being the piece in
\* progress
RECURSIVE SplitLines(_, _)
SplitLines(text, line) ==
    IF text = <<>>
    THEN <<line>>
    ELSE IF Head(text) = "\n"
    THEN <<line>> \o SplitLines(Tail(text), <<>>)
    ELSE SplitLines(Tail(text), Append(line, Head(text)))

\* sep.join(parts)
RECURSIVE Join(_, _)
Join(parts, sep) ==
    IF parts = <<>>
    THEN <<>>
    ELSE IF Len(parts) = 1
    THEN parts[1]
    ELSE parts[1] \o sep \o Join(Tail(parts), sep)

\* whitespace_pattern.sub(' ', text): every run of whitespace becomes one space
RECURSIVE CollapseWhitespace(_)
CollapseWhitespace(text) ==
    IF text = <<>>
    THEN <<>>
    ELSE IF Head(text) \notin Whitespace
    THEN <<Head(text)>> \o CollapseWhitespace(Tail(text))
    ELSE IF Len(text) > 1 /\ text[2] \in Whitespace
    THEN CollapseWhitespace(Tail(text))
    ELSE <<" ">> \o CollapseWhitespace(Tail(text))

\* the loop over the words of a long line from word i on, and the append after
\* it: the lines it adds to new_lines
RECURSIVE WrapWords(_, _, _, _)
WrapWords(words, i, current_line, max_line_length) ==
    IF i > Len(words)
    THEN IF current_line # <<>> THEN <<current_line>> ELSE <<>>
    ELSE IF Len(current_line) + Len(words[i]) + 1 <= max_line_length
    THEN WrapWords(words, i + 1,
                   IF current_line # <<>> THEN current_line \o <<" ">> \o words[i]
                                          ELSE words[i],
                   max_line_length)
    ELSE <<current_line>> \o WrapWords(words, i + 1, words[i], max_line_length)

\* the body of `for line in lines`: what one line adds to new_lines
WrapLine(line, max_line_length) ==
    IF Len(line) > max_line_length
    THEN WrapWords(Split(line, <<>>), 1, <<>>, max_line_length)
    ELSE <<line>>

\* new_lines after the loop over lines from line i on
RECURSIVE WrapLines(_, _, _)
WrapLines(lines, i, max_line_length) ==
    IF i > Len(lines)
    THEN <<>>
    ELSE WrapLine(lines[i], max_line_length) \o WrapLines(lines, i + 1, max_line_length)

\* BasicTextCleaner(normalize_whitespace=..., max_line_length=...); None is <<>>
BasicTextCleanerInit(normalize_whitespace, max_line_length) ==
    [kind |-> "BasicTextCleaner", lowercase |-> FALSE,
     normalize_whitespace |-> normalize_whitespace,
     max_line_length |-> max_line_length]

\* `if self.max_line_length:` is false for None and for 0
WrapsLines(self) == self.max_line_length # <<>> /\ self.max_line_length[1] # 0

\* the text before the wrapping step: the texts of WrapTexts hold no URL and no
\* e-mail address and are in NFKC form; newline_pattern finds no newline after
\* whitespace_pattern replaced them all
BeforeWrapping(self, text) ==
    IF self.normalize_whitespace THEN CollapseWhitespace(text) ELSE text

\* BasicTextCleaner.process of a cleaner built with BasicTextCleanerInit
BasicTextCleanerProcessWrapping(self, h, doc) ==
    LET original_length == Len(h[doc].text)
        cleaned == BeforeWrapping(self, h[doc].text)
        text == IF WrapsLines(self)
                THEN Join(WrapLines(SplitLines(cleaned, <<>>), 1, self.max_line_length[1]),
                          <<"\n">>)
                ELSE cleaned
    IN  [raised |-> FALSE,
         heap |-> [h EXCEPT ![doc] =
                      AddProcessingStep(
                          [@ EXCEPT !.text = text],
                          "basic_text_cleaning",
                          [original_length |-> original_length,
                           cleaned_length |-> Len(text),
                           chars_removed |-> original_length - Len(text),
                           lowercase |-> self.lowercase])],
         result |-> doc]

WrapChars == {"a", "b", " ", "\n"}

WrapTexts == SeqsUpTo(WrapChars, MaxTextLen + 2)

WrapConfigs ==
    {BasicTextCleanerInit(normalize_whitespace, max_line_length) :
        normalize_whitespace \in BOOLEAN,
        max_line_length \in {<<>>, <<0>>, <<1>>, <<2>>, <<3>>}}

InitWrap ==
    /\ processors \in {<<self>> : self \in WrapConfigs}
    /\ \E text \in WrapTexts :
        /\ documents = <<Document(1, text)>>
        /\ heap = <<FromDocument(Document(1, text))>>
    /\ hash_seed = 1
    /\ batch_size = 1
    /\ current_batch = <<>>
    /\ stage_idx = 1
    /\ doc_idx = 1
    /\ all_results = <<>>
    /\ pc = "idle"
    /\ output = <<>>
    /\ trace = <<>>
    /\ runs = <<>>

\* BasicTextCleaner.process on the record; trace keeps, for every line of the
\* text the wrapping step starts from, the lines it added to new_lines
BasicTextCleanerCall ==
    /\ pc = "idle"
    /\ LET self == processors[1]
           r == BasicTextCleanerProcessWrapping(self, heap, 1)
           lines == SplitLines(BeforeWrapping(self, heap[1].text), <<>>)
       IN  /\ heap' = r.heap
           /\ output' = <<r.result>>
           /\ trace' = IF WrapsLines(self)
                       THEN [k \in 1..Len(lines) |->
                                [line |-> lines[k],
                                 new_lines |-> WrapLine(lines[k], self.max_line_length[1])]]
                       ELSE <<>>
    /\ pc' = "returned"
    /\ UNCHANGED <<processors, batch_size, hash_seed, documents, current_batch,
                   stage_idx, doc_idx, all_results, runs>>

NextWrap == BasicTextCleanerCall

SpecWrap == InitWrap /\ [][NextWrap]_vars

----------------------------------------------------------------------------
(* SentenceTokenizer and WordTokenizer (tokenization.py)                    *)

SentenceEnd == {".", "!", "?"}

\* the places the fallback of sent_tokenize splits at, (?<=[.!?])\s+ : a
\* sentence end followed by whitespace
SentenceBreaks(text) ==
    {i \in 1..(Len(text) - 1) : text[i] \in SentenceEnd /\ text[i + 1] \in Whitespace}

\* the last character of the whitespace run that starts at i
WhitespaceRun(text, i) ==
    CHOOSE j \in i..Len(text) :
        /\ \A k \in i..j : text[k] \in Whitespace
        /\ j = Len(text) \/ text[j + 1] \notin Whitespace

\* the pieces of text from start on, cut after the sentence ends in cuts, the
\* whitespace after a cut dropped
RECURSIVE SentTokenizeFrom(_, _, _, _)
SentTokenizeFrom(text, i, start, cuts) ==
    IF i > Len(text)
    THEN <<SubSeq(text, start, Len(text))>>
    ELSE IF i \in cuts
    THEN LET next == WhitespaceRun(text, i + 1) + 1
         IN  <<SubSeq(text, start, i)>> \o SentTokenizeFrom(text, next, next, cuts)
    ELSE SentTokenizeFrom(text, i + 1, start, cuts)

\* sent_tokenize(text).  The fallback, re.split, cuts at every sentence break.
\* nltk's tokenizer is a library outside the repository: on the texts of the
\* model (letters, spaces, sentence ends) it cuts at some of the same breaks,
\* which ones depending on its trained parameters.
SentTokenize(text, cuts) == SentTokenizeFrom(text, 1, 1, cuts)

SentenceCuts(text) == SUBSET SentenceBreaks(text)

\* re.findall(r'\w+|[^\w\s]', sentence) from character i on: the runs of word
\* characters, and every other character that is not whitespace on its own
RECURSIVE FindTokens(_, _)
FindTokens(text, i) ==
    IF i > Len(text)
    THEN <<>>
    ELSE IF text[i] \in Whitespace
    THEN FindTokens(text, i + 1)
    ELSE IF text[i] \notin WordChars
    THEN <<<<text[i]>>>> \o FindTokens(text, i + 1)
    ELSE LET j == CHOOSE j \in i..Len(text) :
                      /\ \A k \in i..j : text[k] \in WordChars
                      /\ j = Len(text) \/ text[j + 1] \notin WordChars
         IN  <<SubSeq(text, i, j)>> \o FindTokens(text, j + 1)

\* word_tokenize(text), the fallback: the sentences it splits into first are
\* cut at whitespace, which no token holds
WordTokenize(text) == FindTokens(text, 1)

\* SentenceTokenizer(min_sentence_length=..., max_sentence_length=...) with
\* store_sentence_spans=False; None is <<>>
SentenceTokenizer(min_sentence_length, max_sentence_length) ==
    [kind |-> "SentenceTokenizer", min_sentence_length |-> min_sentence_length,
     max_sentence_length |-> max_sentence_length]

\* WordTokenizer(...) with store_token_spans=False
WordTokenizer(lowercase, remove_punctuation, min_word_length, max_word_length) ==
    [kind |-> "WordTokenizer", lowercase |-> lowercase,
     remove_punctuation |-> remove_punctuation, min_word_length |-> min_word_length,
     max_word_length |-> max_word_length]

\* filtered_sentences after the loop over sentences from sentence i on
RECURSIVE FilterSentences(_, _, _)
FilterSentences(self, sentences, i) ==
    IF i > Len(sentences)
    THEN <<>>
    ELSE LET word_count == Len(Split(sentences[i], <<>>))
             keep == /\ word_count >= self.min_sentence_length
                     /\ \/ self.max_sentence_length = <<>>
                        \/ word_count <= self.max_sentence_length[1]
         IN  (IF keep THEN <<sentences[i]>> ELSE <<>>)
                 \o FilterSentences(self, sentences, i + 1)

\* `if self.min_sentence_length > 0 or self.max_sentence_length:`
FiltersSentences(self) ==
    \/ self.min_sentence_length > 0
    \/ self.max_sentence_length # <<>> /\ self.max_sentence_length[1] # 0

\* SentenceTokenizer.process, sent_tokenize cutting at cuts
SentenceTokenizerProcess(self, h, doc, cuts) ==
    IF doc = NoneRef
    THEN [raised |-> TRUE, heap |-> h, result |-> NoneRef]
    ELSE LET candidates == SentTokenize(h[doc].text, cuts)
             sentences == IF FiltersSentences(self)
                          THEN FilterSentences(self, candidates, 1)
                          ELSE candidates
             stored == DictPut(DictPut(h[doc].processing_metadata, "sentences", sentences),
                               "sentence_count", Len(sentences))
         IN  [raised |-> FALSE,
              heap |-> [h EXCEPT ![doc] =
                           AddProcessingStep(
                               [@ EXCEPT !.processing_metadata = stored],
                               "sentence_tokenization",
                               [sentence_count |-> Len(sentences),
                                min_sentence_length |-> self.min_sentence_length,
                                max_sentence_length |-> self.max_sentence_length])],
              result |-> doc]

\* punctuation_pattern.match(token), ^\W+$ : no word character in the token
IsPunctuation(token) ==
    token # <<>> /\ \A k \in 1..Len(token) : token[k] \notin WordChars

\* all_tokens of the sentences from sentence i on
RECURSIVE TokensOfSentences(_, _)
TokensOfSentences(sentences, i) ==
    IF i > Len(sentences)
    THEN <<>>
    ELSE WordTokenize(sentences[i]) \o TokensOfSentences(sentences, i + 1)

\* filtered_tokens after the loop over all_tokens from token i on
RECURSIVE FilterTokens(_, _, _)
FilterTokens(self, all_tokens, i) ==
    IF i > Len(all_tokens)
    THEN <<>>
    ELSE LET token == IF self.lowercase THEN Lower(all_tokens[i]) ELSE all_tokens[i]
             skip == \/ self.remove_punctuation /\ IsPunctuation(token)
                     \/ Len(token) < self.min_word_length
                     \/ self.max_word_length # <<>> /\ Len(token) > self.max_word_length[1]
         IN  (IF skip THEN <<>> ELSE <<token>>) \o FilterTokens(self, all_tokens, i + 1)

\* WordTokenizer.process
WordTokenizerProcess(self, h, doc) ==
    IF doc = NoneRef
    THEN [raised |-> TRUE, heap |-> h, result |-> NoneRef]
    ELSE LET all_tokens ==
                 IF "sentences" \in DOMAIN h[doc].processing_metadata
                 THEN TokensOfSentences(h[doc].processing_metadata["sentences"], 1)
                 ELSE WordTokenize(h[doc].text)
             filtered_tokens == FilterTokens(self, all_tokens, 1)
         IN  [raised |-> FALSE,
              heap |-> [h EXCEPT ![doc] =
                           AddProcessingStep(
                               [@ EXCEPT !.tokens = filtered_tokens,
                                         !.token_count = Len(filtered_tokens)],
                               "word_tokenization",
                               [token_count |-> Len(filtered_tokens),
                                lowercase |-> self.lowercase,
                                remove_punctuation |-> self.remove_punctuation,
                                min_word_length |-> self.min_word_length,
                                max_word_length |-> self.max_word_length])],
              result |-> doc]

----------------------------------------------------------------------------
(* SentenceTokenizer.process on its own *)

\* 'Hi there.', 'How are you?', 'Fine.'
SentencePieces ==
    {<<"H", "i", " ", "t", "h", "e", "r", "e", ".">>,
     <<"H", "o", "w", " ", "a", "r", "e", " ", "y", "o", "u", "?">>,
     <<"F", "i", "n", "e", ".">>}

\* the pieces of a sequence joined by single spaces: 'Hi there. How are you?
\* Fine.' is one of the texts
SentenceTexts == {Join(pieces, <<" ">>) : pieces \in SeqsUpTo(SentencePieces, 3)}

SentenceConfigs ==
    {SentenceTokenizer(min_sentence_length, max_sentence_length) :
        min_sentence_length \in {0, 2, 3},
        max_sentence_length \in {<<>>, <<0>>, <<2>>, <<3>>}}

InitSentences ==
    /\ processors \in {<<self>> : self \in SentenceConfigs}
    /\ \E text \in SentenceTexts :
        /\ documents = <<Document(1, text)>>
        /\ heap = <<FromDocument(Document(1, text))>>
    /\ hash_seed = 1
    /\ batch_size = 1
    /\ current_batch = <<>>
    /\ stage_idx = 1
    /\ doc_idx = 1
    /\ all_results = <<>>
    /\ pc = "idle"
    /\ output = <<>>
    /\ trace = <<>>
    /\ runs = <<>>

\* SentenceTokenizer.process on the record; trace keeps what sent_tokenize
\* returned
SentenceTokenizerCall ==
    /\ pc = "idle"
    /\ \E cuts \in SentenceCuts(heap[1].text) :
        LET r == SentenceTokenizerProcess(processors[1], heap, 1, cuts)
        IN  /\ heap' = r.heap
            /\ output' = <<r.result>>
            /\ trace' = <<SentTokenize(heap[1].text, cuts)>>
    /\ pc' = "returned"
    /\ UNCHANGED <<processors, batch_size, hash_seed, documents, current_batch,
                   stage_idx, doc_idx, all_results, runs>>

NextSentences == SentenceTokenizerCall

SpecSentences == InitSentences /\ [][NextSentences]_vars

----------------------------------------------------------------------------
(* The default pipeline (main.py) run by process_documents                  *)

\* LegalTextCleaner(remove_header_footer=True, remove_page_numbers=True,
\* normalize_citations=True, remove_line_numbers=True)
LegalTextCleaner ==
    [kind |-> "LegalTextCleaner", remove_header_footer |-> TRUE,
     remove_page_numbers |-> TRUE, normalize_citations |-> TRUE,
     remove_line_numbers |-> TRUE]

\* LegalTextCleaner.process.  The texts of DefaultTexts hold no digit, bracket,
\* newline or section sign, none of the header and footer phrases and no
\* " v. ": none of the patterns matches and the text stays as it is.
LegalTextCleanerProcess(self, h, doc) ==
    IF doc = NoneRef
    THEN [raised |-> TRUE, heap |-> h, result |-> NoneRef]
    ELSE LET original_length == Len(h[doc].text)
             text == h[doc].text
         IN  [raised |-> FALSE,
              heap |-> [h EXCEPT ![doc] =
                           AddProcessingStep(
                               [@ EXCEPT !.text = text],
                               "legal_text_cleaning",
                               [original_length |-> original_length,
                                cleaned_length |-> Len(text),
                                chars_removed |-> original_length - Len(text),
                                remove_header_footer |-> self.remove_header_footer,
                                remove_page_numbers |-> self.remove_page_numbers,
                                normalize_citations |-> self.normalize_citations,
                                remove_line_numbers |-> self.remove_line_numbers])],
              result |-> doc]

\* create_default_pipeline(): the processors in pipeline order
DefaultPipeline ==
    <<BasicTextCleanerInit(TRUE, <<>>),
      LegalTextCleaner,
      TextNormalizer(TRUE, TRUE, TRUE, FALSE, FALSE, FALSE),
      SentenceTokenizer(3, <<>>),
      WordTokenizer(FALSE, FALSE, 1, <<>>),
      QualityScorer(100, <<>>, <<3, 1>>, <<15, 1>>, 3, <<3, 10>>, <<7, 10>>, <<>>),
      ContentFilter(<<1, 2>>, 100, <<>>, <<>>, <<>>, TRUE),
      Deduplicator("exact", <<9, 10>>, "md5", 3, TRUE)>>

\* processor.process(doc) for the processors of the default pipeline
DefaultProcess(processor, h, doc, cuts) ==
    IF processor.kind = "BasicTextCleaner"
    THEN BasicTextCleanerProcessWrapping(processor, h, doc)
    ELSE IF processor.kind = "LegalTextCleaner"
    THEN LegalTextCleanerProcess(processor, h, doc)
    ELSE IF processor.kind = "SentenceTokenizer"
    THEN SentenceTokenizerProcess(processor, h, doc, cuts)
    ELSE IF processor.kind = "WordTokenizer"
    THEN WordTokenizerProcess(processor, h, doc)
    ELSE Process(processor, h, doc)

\* the collected texts: one or two of the sentence pieces
DefaultTexts == {Join(pieces, <<" ">>) : pieces \in SeqsUpTo(SentencePieces, 2) \ {<<>>}}

\* the documents handed to process_documents, or the sample process_sample
\* took from them; document i has id i
DefaultDocuments ==
    {[i \in 1..Len(texts) |-> Document(i, texts[i])] :
        texts \in SeqsUpTo(DefaultTexts, 2) \ {<<>>}}

\* process_documents(documents, None, batch_size): the pipeline is the default
\* one; heap holds the records made so far, output the records yielded
InitDefault ==
    /\ processors = DefaultPipeline
    /\ documents \in DefaultDocuments
    /\ batch_size \in {1, 2}
    /\ hash_seed = 1
    /\ heap = <<>>
    /\ current_batch = <<>>
    /\ stage_idx = 1
    /\ doc_idx = 1
    /\ all_results = <<>>
    /\ pc = "idle"
    /\ output = <<>>
    /\ trace = <<>>
    /\ runs = <<>>

\* the next batch = documents[i:i+batch_size] goes to process_batch, which
\* converts it
DefaultProcessBatchCall ==
    /\ pc = "idle"
    /\ Len(heap) < Len(documents)
    /\ LET batch == SubBatch(documents, Len(heap) + 1, batch_size)
       IN  /\ heap' = heap \o [i \in 1..Len(batch) |-> FromDocument(batch[i])]
           /\ current_batch' = [i \in 1..Len(batch) |-> Len(heap) + i]
    /\ stage_idx' = 1
    /\ doc_idx' = 1
    /\ all_results' = <<>>
    /\ pc' = "running"
    /\ UNCHANGED <<processors, batch_size, hash_seed, documents, output, trace, runs>>

\* one element of [processor.process(doc) for doc in current_batch]
DefaultApplyProcessor ==
    /\ pc = "running"
    /\ stage_idx <= Len(processors)
    /\ ~IsBatchProcessor(processors[stage_idx])
    /\ ~Exhausted(current_batch, doc_idx)
    /\ LET doc == current_batch[doc_idx]
       IN  \E cuts \in IF processors[stage_idx].kind = "SentenceTokenizer"
                       THEN SentenceCuts(heap[doc].text) ELSE {{}} :
               LET r == DefaultProcess(processors[stage_idx], heap, doc, cuts)
               IN  /\ ~r.raised
                   /\ heap' = r.heap
                   /\ all_results' = Append(all_results, r.result)
                   /\ doc_idx' = doc_idx + 1
                   /\ trace' = Append(trace, [stage |-> stage_idx, doc |-> doc])
    /\ UNCHANGED <<processors, batch_size, hash_seed, documents, current_batch,
                   stage_idx, pc, output, runs>>

\* one sub-batch of the Deduplicator
DefaultApplyBatchProcessor ==
    /\ pc = "running"
    /\ stage_idx <= Len(processors)
    /\ IsBatchProcessor(processors[stage_idx])
    /\ ~Exhausted(current_batch, doc_idx)
    /\ LET sub_batch == SubBatch(current_batch, doc_idx, batch_size)
           r == DeduplicatorProcessBatch(processors[stage_idx], heap, sub_batch, hash_seed)
       IN  /\ ~r.raised
           /\ heap' = r.heap
           /\ all_results' = all_results \o r.result
           /\ doc_idx' = doc_idx + batch_size
           /\ trace' = trace \o [k \in 1..Len(sub_batch) |->
                                    [stage |-> stage_idx, doc |-> sub_batch[k]]]
    /\ UNCHANGED <<processors, batch_size, hash_seed, documents, current_batch,
                   stage_idx, pc, output, runs>>

\* the processor has seen the whole batch: current_batch = its results
DefaultNextProcessor ==
    /\ pc = "running"
    /\ stage_idx <= Len(processors)
    /\ Exhausted(current_batch, doc_idx)
    /\ current_batch' = all_results
    /\ all_results' = <<>>
    /\ stage_idx' = stage_idx + 1
    /\ doc_idx' = 1
    /\ UNCHANGED <<processors, batch_size, hash_seed, documents, heap, pc, output,
                   trace, runs>>

\* process_batch yields its records, process_documents passes them on and
\* goes to its next batch
DefaultYieldDocuments ==
    /\ pc = "running"
    /\ stage_idx > Len(processors)
    /\ output' = output \o current_batch
    /\ pc' = IF Len(heap) < Len(documents) THEN "idle" ELSE "done"
    /\ UNCHANGED <<processors, batch_size, hash_seed, documents, heap, current_batch,
                   stage_idx, doc_idx, all_results, trace, runs>>

NextDefault ==
    \/ DefaultProcessBatchCall
    \/ DefaultApplyProcessor
    \/ DefaultApplyBatchProcessor
    \/ DefaultNextProcessor
    \/ DefaultYieldDocuments

SpecDefault == InitDefault /\ [][NextDefault]_vars

----------------------------------------------------------------------------
(* LegalTokenizer (tokenization.py)                                         *)

\* the section sign
SectionSign == "U+00A7"

\* the two characters tokenization.py holds, at lines 329 and 332, where
\* cleaning.py 192 holds the section sign: U+0E22 and, repeated by the +, U+0E07
SectionFirst == "U+0E22"

SectionNext == "U+0E07"

\* \d and [a-z]
Digits == {"0", "1", "2", "3", "4", "5", "6", "7", "8", "9"}

LowerLetters ==
    {"a", "b", "c", "d", "e", "f", "g", "h", "i", "j", "k", "l", "m",
     "n", "o", "p", "q", "r", "s", "t", "u", "v", "w", "x", "y", "z"}

\* the last index of the longest run of characters of S that starts at i;
\* i - 1 if there is none
RunEnd(text, i, S) ==
    CHOOSE j \in (i - 1)..Len(text) :
        /\ \A k \in i..j : text[k] \in S
        /\ j = Len(text) \/ text[j + 1] \notin S

\* (?:\.\d+)* after index c: the last index it matches up to
RECURSIVE DecimalsEnd(_, _)
DecimalsEnd(text, c) ==
    IF c + 1 <= Len(text) /\ text[c + 1] = "." /\ RunEnd(text, c + 2, Digits) > c + 1
    THEN DecimalsEnd(text, RunEnd(text, c + 2, Digits))
    ELSE c

\* section_pattern matched at index i: the last index of the match, 0 if the
\* pattern does not match there
SectionMatchEnd(text, i) ==
    IF text[i] # SectionFirst
    THEN 0
    ELSE LET signs == RunEnd(text, i + 1, {SectionNext})
             spaces == RunEnd(text, signs + 1, Whitespace)
             digits == RunEnd(text, spaces + 1, Digits)
         IN  IF signs = i \/ digits = spaces
             THEN 0
             ELSE LET decimals == DecimalsEnd(text, digits)
                  IN  IF decimals + 1 <= Len(text) /\ text[decimals + 1] \in LowerLetters
                      THEN decimals + 1
                      ELSE decimals

\* section_pattern.finditer(text) from index i on: (type, text, span) of each
\* match, the span counted from 0 with its end excluded
RECURSIVE SectionEntities(_, _)
SectionEntities(text, i) ==
    IF i > Len(text)
    THEN <<>>
    ELSE LET e == SectionMatchEnd(text, i)
         IN  IF e = 0
             THEN SectionEntities(text, i + 1)
             ELSE <<[type |-> "section", text |-> SubSeq(text, i, e), span |-> <<i - 1, e>>]>>
                      \o SectionEntities(text, e + 1)

\* LegalTokenizer(preserve_citations=..., ...)
LegalTokenizer(preserve_citations, preserve_case_names, preserve_statute_refs, preserve_section_refs) ==
    [kind |-> "LegalTokenizer", preserve_citations |-> preserve_citations,
     preserve_case_names |-> preserve_case_names,
     preserve_statute_refs |-> preserve_statute_refs,
     preserve_section_refs |-> preserve_section_refs]

\* legal_entities after the four finditer loops and the sort by span start.
\* The texts of LegalTexts hold no capital letter: the citation, case name and
\* statute patterns, which all need one, match nowhere, and the matches of
\* section_pattern come in the order of their starts.
LegalEntities(self, text) ==
    IF self.preserve_section_refs THEN SectionEntities(text, 1) ELSE <<>>

\* str(n) for the numbers of placeholders a text of the model can need
Str(n) == <<<<"0", "1", "2", "3", "4", "5", "6", "7", "8", "9">>[n + 1]>>

\* entity_type.upper()
Upper(entity_type) == IF entity_type = "section" THEN <<"S", "E", "C", "T", "I", "O", "N">> ELSE <<>>

\* f"__LEGAL_{entity_type.upper()}_{len(mask_map)}__"
Placeholder(entity_type, mask_map) ==
    <<"_", "_", "L", "E", "G", "A", "L", "_">> \o Upper(entity_type) \o <<"_">> \o Str(Len(mask_map)) \o <<"_", "_">>

\* the masking loop from entity i on: mask_map in insertion order
RECURSIVE MaskLoop(_, _, _, _, _)
MaskLoop(legal_entities, i, masked_text, mask_map, offset) ==
    IF i > Len(legal_entities)
    THEN [masked_text |-> masked_text, mask_map |-> mask_map]
    ELSE LET start == legal_entities[i].span[1]
             end == legal_entities[i].span[2]
             adj_start == start - offset
             adj_end == end - offset
             placeholder == Placeholder(legal_entities[i].type, mask_map)
         IN  MaskLoop(
                 legal_entities, i + 1,
                 SubSeq(masked_text, 1, adj_start) \o placeholder
                     \o SubSeq(masked_text, adj_end + 1, Len(masked_text)),
                 OrderedSet(mask_map, placeholder, legal_entities[i].text),
                 offset + (end - start) - Len(placeholder))

\* final_tokens after the loop over tokens from token i on
RECURSIVE RestoreLoop(_, _, _, _)
RestoreLoop(self, tokens, i, mask_map) ==
    IF i > Len(tokens)
    THEN <<>>
    ELSE (IF OrderedHas(mask_map, tokens[i])
          THEN IF \/ self.preserve_citations \/ self.preserve_case_names
                  \/ self.preserve_statute_refs \/ self.preserve_section_refs
               THEN <<OrderedGet(mask_map, tokens[i])>>
               ELSE WordTokenize(OrderedGet(mask_map, tokens[i]))
          ELSE <<tokens[i]>>)
         \o RestoreLoop(self, tokens, i + 1, mask_map)

\* LegalTokenizer.process; masked is what its masking loop left
LegalTokenizerProcess(self, h, doc) ==
    IF doc = NoneRef
    THEN [raised |-> TRUE, heap |-> h, result |-> NoneRef, masked |-> <<>>]
    ELSE LET text == h[doc].text
             legal_entities == LegalEntities(self, text)
             masked == MaskLoop(legal_entities, 1, text, <<>>, 0)
             tokens == WordTokenize(masked.masked_text)
             final_tokens == RestoreLoop(self, tokens, 1, masked.mask_map)
         IN  [raised |-> FALSE,
              heap |-> [h EXCEPT ![doc] =
                           AddProcessingStep(
                               [@ EXCEPT !.tokens = final_tokens,
                                         !.token_count = Len(final_tokens),
                                         !.processing_metadata =
                                             DictPut(@, "legal_entities", legal_entities)],
                               "legal_tokenization",
                               [token_count |-> Len(final_tokens),
                                legal_entity_count |-> Len(legal_entities),
                                preserve_citations |-> self.preserve_citations,
                                preserve_case_names |-> self.preserve_case_names,
                                preserve_statute_refs |-> self.preserve_statute_refs,
                                preserve_section_refs |-> self.preserve_section_refs])],
              result |-> doc,
              masked |-> masked]

LegalChars == {SectionSign, SectionFirst, SectionNext, "1", ".", "a", " "}

LegalTexts == SeqsUpTo(LegalChars, MaxTextLen + 3)

LegalConfigs ==
    {LegalTokenizer(TRUE, TRUE, TRUE, TRUE), LegalTokenizer(TRUE, TRUE, TRUE, FALSE),
     LegalTokenizer(FALSE, FALSE, FALSE, TRUE), LegalTokenizer(FALSE, FALSE, FALSE, FALSE)}

InitLegal ==
    /\ processors \in {<<self>> : self \in LegalConfigs}
    /\ \E text \in LegalTexts :
        /\ documents = <<Document(1, text)>>
        /\ heap = <<FromDocument(Document(1, text))>>
    /\ hash_seed = 1
    /\ batch_size = 1
    /\ current_batch = <<>>
    /\ stage_idx = 1
    /\ doc_idx = 1
    /\ all_results = <<>>
    /\ pc = "idle"
    /\ output = <<>>
    /\ trace = <<>>
    /\ runs = <<>>

\* LegalTokenizer.process on the record; trace keeps masked_text and mask_map
LegalTokenizerCall ==
    /\ pc = "idle"
    /\ LET r == LegalTokenizerProcess(processors[1], heap, 1)
       IN  /\ heap' = r.heap
           /\ output' = <<r.result>>
           /\ trace' = <<r.masked>>
    /\ pc' = "returned"
    /\ UNCHANGED <<processors, batch_size, hash_seed, documents, current_batch,
                   stage_idx, doc_idx, all_results, runs>>

NextLegal == LegalTokenizerCall

SpecLegal == InitLegal /\ [][NextLegal]_vars

----------------------------------------------------------------------------
(* Properties *)

Min(S) == CHOOSE x \in S : \A y \in S : x <= y

Meta(i) == heap[i].processing_metadata

DistinctIds ==
    \A i, j \in 1..Len(documents) : i # j => documents[i].id # documents[j].id

\* the documents of the batch whose text is text
Sharing(text) == {i \in 1..Len(documents) : documents[i].text = text}

\* exactly the documents of Sharing(text) share a text: the others differ pairwise
OthersDistinct(text) ==
    \A i, j \in (1..Len(documents)) \ Sharing(text) :
        i # j => documents[i].text # documents[j].text

ExactKeepFirstDone ==
    /\ pc = "done"
    /\ processors[1].method = "exact"
    /\ processors[1].keep_first
    /\ DistinctIds

\* C1: exact deduplication with keep_first=true of n records with distinct
\* ids, k >= 1 of which share one text while the other texts differ pairwise,
\* returns n - k + 1 records: the first of the k is returned, the other k - 1
\* are not, and each of them has duplicate=true and duplicate_of = the id of
\* the first.
C1_ExactKeepsFirstOfEqualTexts ==
    ExactKeepFirstDone =>
        \A text \in DedupTexts :
            (Sharing(text) # {} /\ OthersDistinct(text)) =>
                LET keeper == Min(Sharing(text))
                IN  /\ Len(output) = Len(documents) - Cardinality(Sharing(text)) + 1
                    /\ keeper \in Range(output)
                    /\ \A i \in Sharing(text) \ {keeper} :
                        /\ i \notin Range(output)
                        /\ Meta(i)["duplicate"] = TRUE
                        /\ Meta(i)["duplicate_of"] = documents[keeper].id

C1_Witness ==
    /\ ExactKeepFirstDone
    /\ Len(documents) = 3
    /\ \E text \in DedupTexts :
        /\ Cardinality(Sharing(text)) = 2
        /\ OthersDistinct(text)
        /\ documents[1].text # text

\* the checks of a ContentFilter in the documented order
DocumentedChecks(self) ==
    <<<<"min_length", 0>>, <<"max_length", 0>>, <<"min_quality_score", 0>>>>
    \o [i \in 1..Len(self.required_patterns) |-> <<"required_pattern", i>>]
    \o [i \in 1..Len(self.excluded_patterns) |-> <<"excluded_pattern", i>>]

\* the record violates the check
Violates(self, rec, check) ==
    CASE check[1] = "min_length" -> Len(rec.text) < self.min_length
      [] check[1] = "max_length" ->
            self.max_length # <<>> /\ Len(rec.text) > self.max_length[1]
      [] check[1] = "min_quality_score" ->
            rec.quality_score # <<>> /\ ~FracGeq(rec.quality_score, self.min_quality_score)
      [] check[1] = "required_pattern" ->
            ~Search(self.required_patterns[check[2]], rec.text)
      [] check[1] = "excluded_pattern" ->
            Search(self.excluded_patterns[check[2]], rec.text)

\* the filter_reason that names the check
ReasonOf(self, rec, check) ==
    CASE check[1] = "min_length" -> <<"Text too short", Len(rec.text), self.min_length>>
      [] check[1] = "max_length" -> <<"Text too long", Len(rec.text), self.max_length[1]>>
      [] check[1] = "min_quality_score" ->
            <<"Quality score too low", rec.quality_score, self.min_quality_score>>
      [] check[1] = "required_pattern" ->
            <<"Missing required pattern", self.required_patterns[check[2]]>>
      [] check[1] = "excluded_pattern" ->
            <<"Contains excluded pattern", self.excluded_patterns[check[2]]>>

FailingChecks(self, rec) ==
    {k \in 1..Len(DocumentedChecks(self)) : Violates(self, rec, DocumentedChecks(self)[k])}

\* C6: ContentFilter.process stops at the first failing check of the order
\* minimum length, maximum length, minimum quality score (when a score is
\* set), required patterns in order, excluded patterns in order: the recorded
\* filter_reason names the earliest failing check, and a record is rejected
\* exactly when some check fails.
C6_ReasonIsEarliestFailingCheck ==
    pc = "returned" =>
        LET self == processors[1]
            failing == FailingChecks(self, heap[1])
        IN  IF failing = {}
            THEN /\ output = <<1>>
                 /\ Meta(1)["filtered"] = FALSE
                 /\ "filter_reason" \notin DOMAIN Meta(1)
            ELSE IF self.keep_document
            THEN /\ output = <<1>>
                 /\ Meta(1)["filtered"] = TRUE
                 /\ Meta(1)["filter_reason"] =
                        ReasonOf(self, heap[1], DocumentedChecks(self)[Min(failing)])
            ELSE output = <<NoneRef>>

\* a record that violates a length bound and a required pattern
C6_Witness ==
    /\ pc = "returned"
    /\ processors[1].keep_document
    /\ \E k \in FailingChecks(processors[1], heap[1]) :
            DocumentedChecks(processors[1])[k][1] = "required_pattern"
    /\ Min(FailingChecks(processors[1], heap[1])) <= 2
    /\ Meta(1)["filter_reason"][1] \in {"Text too short", "Text too long"}

ApproxDone == pc = "done" /\ processors[1].method \in {"simhash", "minhash"}

\* the similarity the method computes for the texts of documents i and j
TextSimilarity(i, j) ==
    Similarity(processors[1],
               Signature(processors[1], documents[i].text, hash_seed),
               Signature(processors[1], documents[j].text, hash_seed))

\* the uniques accepted before document i that are similar enough to it
SimilarUniquesBefore(i) ==
    {u \in 1..(i - 1) :
        /\ Meta(u)["duplicate"] = FALSE
        /\ FracGeq(TextSimilarity(i, u), processors[1].similarity_threshold)}

FirstMatchWins ==
    \A i \in 1..Len(documents) :
        IF SimilarUniquesBefore(i) = {}
        THEN Meta(i)["duplicate"] = FALSE
        ELSE /\ Meta(i)["duplicate"] = TRUE
             /\ Meta(i)["duplicate_of"] = documents[Min(SimilarUniquesBefore(i))].id

\* C7: in the simhash and minhash methods a record is marked duplicate exactly
\* when a unique accepted earlier in the batch has similarity >= the threshold
\* with it, and duplicate_of is then the earliest accepted such unique;
\* otherwise the record is a new unique.
C7_FirstMatchWins == ApproxDone => FirstMatchWins

\* the same for batches whose ids are pairwise distinct
C7_FirstMatchWinsDistinctIds == (ApproxDone /\ DistinctIds) => FirstMatchWins

\* C8: two runs of the same method with the same configuration on the same
\* batch of texts give the same partition into uniques and duplicates, with
\* the same duplicate_of.
C8_RunsAgree == Len(runs) = 2 => runs[1].partition = runs[2].partition

\* the same for two runs in interpreter processes with the same hash salt
C8_RunsAgreeSameSalt ==
    (Len(runs) = 2 /\ runs[1].seed = runs[2].seed) => runs[1].partition = runs[2].partition

----------------------------------------------------------------------------
(* Properties of the pipeline *)

\* the stage applications of trace on document doc, in order
EventsOf(doc) == SelectSeq(trace, LAMBDA e : e.doc = doc)

\* the entry a stage records in processing_history
StepName(processor) ==
    CASE processor.kind = "BasicTextCleaner" -> "basic_text_cleaning"
      [] processor.kind = "ContentFilter" -> "content_filtering"
      [] processor.kind = "QualityScorer" -> "quality_assessment"
      [] processor.kind = "TextNormalizer" -> "text_normalization"
      [] processor.kind = "Deduplicator" -> "deduplication"

\* the step names of the stage applications, a rejecting ContentFilter left out
RECURSIVE RecordedSteps(_)
RecordedSteps(events) ==
    IF events = <<>> THEN <<>>
    ELSE IF Head(events).rejected THEN RecordedSteps(Tail(events))
    ELSE <<StepName(processors[Head(events).stage])>> \o RecordedSteps(Tail(events))

DroppingRejections ==
    {k \in 1..Len(trace) : trace[k].rejected /\ ~processors[trace[k].stage].keep_document}

\* the record went through every stage and is produced, unless a Deduplicator
\* removed it as a duplicate
ProcessedAndProduced(doc) ==
    /\ [k \in 1..Len(EventsOf(doc)) |-> EventsOf(doc)[k].stage] =
            [k \in 1..Len(processors) |-> k]
    /\ \/ doc \in Range(output)
       \/ DictGetDefault(Meta(doc), "duplicate", FALSE)

\* C4: when a stage fails for one record of a batch, the sibling records are
\* still processed by all remaining stages and produced as output.
C4_SiblingsSurviveFailure ==
    pc = "failed" =>
        \A doc \in Range(current_batch) \ {NoneRef} : ProcessedAndProduced(doc)

\* C5: a record rejected by a ContentFilter with keep_document=false is
\* dropped: process_batch yields exactly the records that passed, without a
\* placeholder for a rejected one, and the stages after the filter run on the
\* remaining records.
C5_RejectedRecordsAreDropped ==
    (pc \in {"done", "failed"} /\ DroppingRejections # {}) =>
        /\ pc = "done"
        /\ NoneRef \notin Range(output)
        /\ \A doc \in 1..Len(heap) :
            (\A k \in DroppingRejections : trace[k].doc # doc) => ProcessedAndProduced(doc)

\* a Deduplicator stage has returned from its last sub-batch: current_batch is
\* the batch that reached the stage, all_results the stage's output
DeduplicatorStageDone ==
    /\ pc = "running"
    /\ stage_idx <= Len(processors)
    /\ processors[stage_idx].kind = "Deduplicator"
    /\ Exhausted(current_batch, doc_idx)

\* the sub-batch of the record at position i (from 1) of the batch that reached
\* the stage: floor((i - 1) / B)
SubBatchOf(i) == (i - 1) \div batch_size

\* the records at positions i and j have identical text and lie in different
\* sub-batches
SameTextAcrossSubBatches(i, j) ==
    /\ i # j
    /\ heap[current_batch[i]].text = heap[current_batch[j]].text
    /\ SubBatchOf(i) # SubBatchOf(j)

\* the record at position j is marked a duplicate of the record at position i
MarkedDuplicateOf(j, i) ==
    /\ Meta(current_batch[j])["duplicate"]
    /\ Meta(current_batch[j])["duplicate_of"] = heap[current_batch[i]].id

\* the record at position j is marked a duplicate of an earlier record of its
\* own sub-batch
DuplicateInOwnSubBatch(j) ==
    \E k \in 1..(j - 1) : SubBatchOf(k) = SubBatchOf(j) /\ MarkedDuplicateOf(j, k)

\* C2 as claimed: two records with identical text in different sub-batches
\* of a Deduplicator stage are never marked duplicates of each other and both
\* are in the stage's output.
C2_AcrossSubBatchesBothKept ==
    DeduplicatorStageDone =>
        \A i, j \in 1..Len(current_batch) :
            SameTextAcrossSubBatches(i, j) =>
                /\ ~MarkedDuplicateOf(j, i)
                /\ current_batch[i] \in Range(all_results)
                /\ current_batch[j] \in Range(all_results)

\* C2 amended: the uniques of a Deduplicator stage start empty for every
\* sub-batch.  Two records with identical text in different sub-batches are
\* never marked duplicates of each other, and each of them is in the stage's
\* output unless it is marked a duplicate of an earlier record of its own
\* sub-batch; every record marked duplicate is a duplicate of an earlier record
\* of its own sub-batch.
C2_NoDuplicatesAcrossSubBatches ==
    DeduplicatorStageDone =>
        /\ \A i, j \in 1..Len(current_batch) :
            SameTextAcrossSubBatches(i, j) =>
                /\ ~MarkedDuplicateOf(j, i)
                /\ current_batch[i] \in Range(all_results) \/ DuplicateInOwnSubBatch(i)
                /\ current_batch[j] \in Range(all_results) \/ DuplicateInOwnSubBatch(j)
        /\ \A j \in 1..Len(current_batch) :
            Meta(current_batch[j])["duplicate"] => DuplicateInOwnSubBatch(j)

\* two records with identical text in different sub-batches of a stage with
\* keep_first=true, both in the stage's output
C2_Witness ==
    /\ DeduplicatorStageDone
    /\ processors[stage_idx].keep_first
    /\ \E i, j \in 1..Len(current_batch) :
        /\ SameTextAcrossSubBatches(i, j)
        /\ current_batch[i] \in Range(all_results)
        /\ current_batch[j] \in Range(all_results)

\* the stages of trace never decrease
TraceInStageOrder ==
    \A a, b \in 1..Len(trace) : a < b => trace[a].stage <= trace[b].stage

\* every record produced by process_batch went through stages 1, 2, ... in order
OutputWentThroughAllStages ==
    pc = "done" =>
        \A doc \in Range(output) \ {NoneRef} :
            [k \in 1..Len(EventsOf(doc)) |-> EventsOf(doc)[k].stage] =
                [k \in 1..Len(processors) |-> k]

\* when process_batch moves to the next processor, the current one has been
\* applied to every record of the current batch
StageBarrier ==
    stage_idx' > stage_idx =>
        \A doc \in Range(current_batch) \ {NoneRef} :
            \E k \in 1..Len(trace) : trace[k].stage = stage_idx /\ trace[k].doc = doc

\* C9: process_batch applies the stages in list order with a barrier between
\* them: every record of the current batch is processed by stage i before any
\* record is processed by stage i+1, and every record in the output went
\* through the stages in configured order.
C9_StagesInOrderWithBarrier ==
    /\ [](TraceInStageOrder /\ OutputWentThroughAllStages)
    /\ [][StageBarrier]_vars

\* a batch of two records has gone through two stages
C9_Witness ==
    /\ pc = "done"
    /\ Len(processors) = 2
    /\ Len(output) = 2
    /\ Len(trace) = 4

\* the indices of the per-document processors of the pipeline
PerDocumentStages ==
    SelectSeq([k \in 1..Len(processors) |-> k],
              LAMBDA k : processors[k].kind # "Deduplicator")

\* s is an initial part of t
IsPrefix(s, t) == Len(s) <= Len(t) /\ s = SubSeq(t, 1, Len(s))

\* C10: process_document applies exactly the per-document stages of the
\* pipeline, in configured order, and never a batch-scoped one: when it
\* returns every per-document stage has been applied, when a stage raises the
\* ones before it have, and in both cases the record has no "deduplication"
\* history entry and no duplicate flag.  No stage raises unless a ContentFilter
\* with keep_document=false has rejected the record before it.
C10_ProcessDocumentSkipsBatchStages ==
    pc \in {"returned", "raised"} =>
        /\ IsPrefix([k \in 1..Len(trace) |-> trace[k].stage], PerDocumentStages)
        /\ pc = "returned" => Len(trace) = Len(PerDocumentStages)
        /\ pc = "raised" => DroppingRejections # {}
        /\ \A k \in 1..Len(heap[1].processing_history) :
                heap[1].processing_history[k] # "deduplication"
        /\ "duplicate" \notin DOMAIN Meta(1)

\* process_document has returned from a pipeline of a Deduplicator and a
\* per-document stage
C10_Witness ==
    /\ pc = "returned"
    /\ Len(trace) = 1
    /\ \E k \in 1..Len(processors) : processors[k].kind = "Deduplicator"

----------------------------------------------------------------------------
(* Properties of the stages *)

NewEvents == SubSeq(trace', Len(trace) + 1, Len(trace'))

\* the step applies a QualityScorer to record doc
ScoredInStep(doc) ==
    \E k \in 1..Len(NewEvents) :
        NewEvents[k].doc = doc /\ processors'[NewEvents[k].stage].kind = "QualityScorer"

\* the QualityScorer applications to record doc so far
ScorerEvents(doc) ==
    SelectSeq(trace, LAMBDA e : e.doc = doc /\ processors[e.stage].kind = "QualityScorer")

SameProvenance(rec, doc) ==
    /\ rec.id = doc.id
    /\ rec.source = doc.source
    /\ rec.source_id = doc.source_id
    /\ rec.original_metadata = doc.metadata

C14_KeepDocumentReturnsRecord ==
    [][(pc = "idle" /\ pc' = "returned" /\ processors[1].keep_document) =>
          /\ output' = <<1>>
          /\ heap'[1].text = heap[1].text
          /\ heap'[1].tokens = heap[1].tokens
          /\ heap'[1].quality_score = heap[1].quality_score
          /\ IF FailingChecks(processors[1], heap[1]) # {}
             THEN /\ heap'[1].processing_metadata["filtered"] = TRUE
                  /\ "filter_reason" \in DOMAIN heap'[1].processing_metadata
             ELSE /\ heap'[1].processing_metadata["filtered"] = FALSE
                  /\ heap'[1].processing_history =
                        Append(heap[1].processing_history, "content_filtering")]_vars

\* a scored record that the filter rejected and returned
C14_Witness ==
    /\ pc = "returned"
    /\ processors[1].keep_document
    /\ output = <<1>>
    /\ heap[1].quality_score # <<>>
    /\ Meta(1)["filtered"] = TRUE

----------------------------------------------------------------------------
(* Properties of the Deduplicator *)

\* the records of the batch in batch order
BatchOrder == [i \in 1..Len(documents) |-> i]

\* C15: with keep_first=false Deduplicator.process_batch returns the batch it
\* was given, the same records in the same order, each with its duplicate
\* flag; with keep_first=true it returns exactly the records flagged
\* duplicate=false, in batch order.
C15_KeepFirstSelectsOutput ==
    pc = "done" =>
        /\ \A i \in 1..Len(heap) : Meta(i)["duplicate"] \in BOOLEAN
        /\ output = IF processors[1].keep_first
                    THEN SelectSeq(BatchOrder, LAMBDA i : ~Meta(i)["duplicate"])
                    ELSE BatchOrder

\* a batch of three with a duplicate in the middle, returned whole
C15_Witness ==
    /\ pc = "done"
    /\ ~processors[1].keep_first
    /\ Len(output) = 3
    /\ Meta(2)["duplicate"]
    /\ ~Meta(3)["duplicate"]

\* C16: Deduplicator.process_batch sets processing_metadata["duplicate"] on
\* every record of the batch and appends exactly one "deduplication" entry to
\* the history of each, the duplicates it does not return included.
C16_EveryRecordAnnotated ==
    pc = "done" =>
        \A i \in 1..Len(heap) :
            /\ "duplicate" \in DOMAIN Meta(i)
            /\ heap[i].processing_history = <<"initial_import", "deduplication">>

\* a duplicate that is not returned
C16_Witness ==
    /\ pc = "done"
    /\ processors[1].keep_first
    /\ processors[1].method = "simhash"
    /\ \E i \in 1..Len(heap) : Meta(i)["duplicate"] /\ i \notin Range(output)

----------------------------------------------------------------------------
(* Properties of the QualityScorer *)

SubScores ==
    {"length_score", "avg_word_length_score", "sentence_count_score",
     "repetition_score", "alphanumeric_score"}

InUnitInterval(x) == FracGeq(x, Zero) /\ FracGeq(One, x)

\* C17: for every text and every QualityScorer configuration with positive
\* thresholds each of the five sub-scores lies in [0,1], and with the default
\* weights the composite quality_score lies in [0,1].
C17_ScoresInUnitInterval ==
    pc = "returned" =>
        /\ \A s \in SubScores : InUnitInterval(heap[1].quality_metrics[s])
        /\ processors[1].weights = DefaultWeights =>
               InUnitInterval(heap[1].quality_score)

\* a text longer than max_length, with a repeated word and more sentences than
\* required, scored strictly inside the interval
C17_Witness ==
    /\ pc = "returned"
    /\ processors[1].weights = DefaultWeights
    /\ processors[1].max_length = <<2>>
    /\ heap[1].text = <<".", " ", ".">>
    /\ heap[1].quality_metrics["sentence_count"] = <<2, 1>>
    /\ heap[1].quality_metrics["sentence_count_score"] = One
    /\ heap[1].quality_metrics["length_score"] = <<1, 2>>
    /\ heap[1].quality_score \notin {Zero, One}

----------------------------------------------------------------------------
(* Properties of the TextNormalizer *)

\* C18: the TextNormalizer is idempotent on text: for every text and every
\* setting of the flags the second application leaves the text as the first
\* application made it.
C18_NormalizerIdempotent ==
    [][pc = "once" => heap'[1].text = heap[1].text]_vars

\* the same with normalize_quotes off
C18_NormalizerIdempotentWithoutQuotes ==
    [][(pc = "once" /\ ~processors[1].normalize_quotes) =>
           heap'[1].text = heap[1].text]_vars

----------------------------------------------------------------------------
(* Properties of the stages on a pool of workers *)

WorkersFinished == \A i \in 1..Len(documents) : pc[i] # "running"

\* what process_batch makes of the same documents with the same pipeline
Sequential ==
    SequentialFrom(processors, InitialRecords(documents),
                   [i \in 1..Len(documents) |-> i], 1, 1)

\* C19: when the per-document stages of a batch of distinct records are applied
\* by concurrent workers, in any interleaving that keeps the stages of each
\* record in order, every record ends in the state sequential execution
\* leaves it in.
C19_WorkersAgreeWithSequential ==
    WorkersFinished => heap = Sequential.heap

\* the same for the batches sequential execution gets through without raising
C19_WorkersAgreeWhenNothingRaises ==
    (WorkersFinished /\ ~Sequential.raised) =>
        /\ heap = Sequential.heap
        /\ current_batch = Sequential.result

----------------------------------------------------------------------------
(* Properties of the construction of a Deduplicator *)

Unsupported(call) ==
    \/ call.method \notin {"exact", "simhash", "minhash"}
    \/ call.hash_function \notin {"md5", "sha1", "sha256"}

\* C20: constructing a Deduplicator with a method outside exact, simhash,
\* minhash or a hash function outside md5, sha1, sha256 fails at construction:
\* there is no object, no process_batch call is made under the unsupported
\* configuration, and no record is changed.
C20_UnsupportedFailsAtConstruction ==
    \A k \in 1..Len(trace) :
        Unsupported(trace[k]) =>
            /\ trace[k].call = "__init__"
            /\ k = Len(trace)
            /\ pc = "raised"
            /\ processors = <<>>
            /\ heap = InitialRecords(documents)
            /\ output = <<>>

\* a supported method with an unsupported hash function, records at hand
C20_Witness ==
    /\ pc = "raised"
    /\ trace = <<[call |-> "__init__", method |-> "exact", hash_function |-> "crc32"]>>
    /\ Len(heap) = 2

----------------------------------------------------------------------------
(* Properties of the sub-batch size *)

\* C21: for a fixed batch and a fixed Deduplicator configuration a run with a
\* larger sub-batch size never marks fewer records as duplicates than a run
\* with a smaller one.
C21_LargerSubBatchMarksNoFewer ==
    (Len(runs) = 2 /\ runs[1].batch_size <= runs[2].batch_size) =>
        Cardinality(runs[1].duplicates) <= Cardinality(runs[2].duplicates)

\* the sub-batches of the smaller size lie inside those of the larger size
Coarser(small, large) == large % small = 0 \/ large >= Len(documents)

\* C21, amended: with the exact method, when the larger sub-batch size is a
\* multiple of the smaller one or covers the whole batch, every record the run
\* with the smaller size marks duplicate is marked duplicate by the run with
\* the larger size.
C21_CoarserSubBatchesMarkNoFewer ==
    (/\ Len(runs) = 2
     /\ processors[1].method = "exact"
     /\ Coarser(runs[1].batch_size, runs[2].batch_size)) =>
        runs[1].duplicates \subseteq runs[2].duplicates

\* sub-batches of two, then of four: the later run marks strictly more
C21_Witness ==
    /\ Len(runs) = 2
    /\ processors[1].method = "exact"
    /\ Len(documents) = 4
    /\ runs[1].batch_size = 2
    /\ runs[2].batch_size = 4
    /\ runs[1].duplicates = {2}
    /\ runs[2].duplicates = {2, 3}

----------------------------------------------------------------------------
(* Properties of the approximate methods *)

\* C26: in the minhash method with similarity_threshold <= 1, whenever two
\* records of a batch have identical text the later one is marked duplicate,
\* for every text length, texts shorter than ngram_size included (stated for
\* batches of distinct ids, where the uniques are not overwritten).
C26_IdenticalTextsAreDuplicates ==
    (/\ pc = "done"
     /\ processors[1].method = "minhash"
     /\ DistinctIds
     /\ FracGeq(One, processors[1].similarity_threshold)) =>
        \A i, j \in 1..Len(documents) :
            (i < j /\ documents[i].text = documents[j].text) => Meta(j)["duplicate"]

\* the same for texts of at least ngram_size characters
C26_IdenticalLongTextsAreDuplicates ==
    (/\ pc = "done"
     /\ processors[1].method = "minhash"
     /\ DistinctIds
     /\ FracGeq(One, processors[1].similarity_threshold)) =>
        \A i, j \in 1..Len(documents) :
            (/\ i < j
             /\ documents[i].text = documents[j].text
             /\ Len(documents[j].text) >= processors[1].ngram_size) => Meta(j)["duplicate"]

\* every text of the batch has fewer characters than ngram_size
AllShorterThanNgram ==
    \A i \in 1..Len(documents) : Len(documents[i].text) < processors[1].ngram_size

\* C30: in the simhash method a text shorter than ngram_size gets signature 0,
\* so in a batch whose texts are all shorter than ngram_size only the first
\* record is accepted as unique and every later one is marked duplicate of it
\* with similarity 1.0, for any similarity_threshold <= 1, whatever the texts.
C30_ShortTextsCollapseOntoFirst ==
    (/\ pc = "done"
     /\ processors[1].method = "simhash"
     /\ FracGeq(One, processors[1].similarity_threshold)
     /\ AllShorterThanNgram) =>
        \A j \in 1..Len(documents) :
            IF j = 1 THEN ~Meta(j)["duplicate"]
            ELSE /\ Meta(j)["duplicate"]
                 /\ Meta(j)["duplicate_of"] = documents[1].id
                 /\ FracGeq(Meta(j)["similarity"], One)
                 /\ FracGeq(One, Meta(j)["similarity"])

\* three short texts, two of them different, under the threshold 1
C30_Witness ==
    /\ pc = "done"
    /\ processors[1].method = "simhash"
    /\ processors[1].similarity_threshold = <<1, 1>>
    /\ AllShorterThanNgram
    /\ Len(documents) = 3
    /\ documents[1].text # documents[2].text
    /\ Meta(2)["duplicate"]
    /\ Meta(3)["duplicate"]

----------------------------------------------------------------------------
(* Properties of the duplicate annotations *)

\* C28: after Deduplicator.process_batch on a batch of fresh records with
\* distinct ids, with any of the three methods, every record marked duplicate
\* has duplicate_of equal to the id of a record earlier in the batch that is
\* itself marked duplicate=false, and with keep_first=true that keeper is in
\* the returned list.
C28_DuplicateOfEarlierUnique ==
    (pc = "done" /\ DistinctIds) =>
        \A j \in 1..Len(documents) :
            Meta(j)["duplicate"] =>
                \E i \in 1..(j - 1) :
                    /\ Meta(j)["duplicate_of"] = documents[i].id
                    /\ ~Meta(i)["duplicate"]
                    /\ processors[1].keep_first => i \in Range(output)

\* two duplicates of the first record, the second of them similar to the first
\* duplicate as well
C28_Witness ==
    /\ pc = "done"
    /\ DistinctIds
    /\ processors[1].method = "minhash"
    /\ processors[1].keep_first
    /\ Len(documents) = 3
    /\ documents[2].text = documents[3].text
    /\ documents[1].text # documents[2].text
    /\ Meta(2)["duplicate"]
    /\ Meta(3)["duplicate"]
    /\ output = <<1>>

\* C27: after any sequence of stages a record with
\* processing_metadata["duplicate"] = false has no duplicate_of and no
\* similarity entry, and a record with processing_metadata["filtered"] = false
\* has no filter_reason entry.
C27_AnnotationsConsistent ==
    \A i \in 1..Len(heap) :
        /\ DictGetDefault(Meta(i), "duplicate", TRUE) = FALSE =>
               /\ "duplicate_of" \notin DOMAIN Meta(i)
               /\ "similarity" \notin DOMAIN Meta(i)
        /\ DictGetDefault(Meta(i), "filtered", TRUE) = FALSE =>
               "filter_reason" \notin DOMAIN Meta(i)

----------------------------------------------------------------------------
(* Properties of the yielded batch *)

\* every ContentFilter of the pipeline was built with keep_document = True
FiltersKeepDocuments ==
    \A s \in 1..Len(processors) :
        processors[s].kind = "ContentFilter" => processors[s].keep_document

\* C29: for a stage list whose ContentFilters use keep_document = true and any
\* batch_size >= 1, the records process_batch yields are a subsequence of the
\* input batch: they come in input order, none twice, and a record is missing
\* only if a Deduplicator with keep_first = true marked it duplicate.
C29_OutputIsSubsequenceOfInput ==
    (pc = "done" /\ current_batch = output /\ FiltersKeepDocuments) =>
        /\ \A k \in 1..Len(output) : output[k] \in 1..Len(documents)
        /\ \A k \in 1..(Len(output) - 1) : output[k] < output[k + 1]
        /\ \A i \in 1..Len(documents) :
               (\A k \in 1..Len(output) : output[k] # i) =>
                   /\ \E s \in 1..Len(processors) :
                          /\ processors[s].kind = "Deduplicator"
                          /\ processors[s].keep_first
                   /\ DictGetDefault(heap[i].processing_metadata, "duplicate", FALSE)

\* a batch of three went through a keeping filter and, in sub-batches of two,
\* through a Deduplicator that removed a record and kept one of each sub-batch
C29_Witness ==
    /\ pc = "done"
    /\ current_batch = output
    /\ FiltersKeepDocuments
    /\ Len(processors) = 2
    /\ processors[1].kind = "ContentFilter"
    /\ processors[2].kind = "Deduplicator"
    /\ Len(documents) = 3
    /\ batch_size = 2
    /\ output = <<1, 3>>

----------------------------------------------------------------------------
(* Properties of the hard wrapping *)

\* the words of a sequence of lines, in order
RECURSIVE WordsOf(_)
WordsOf(lines) ==
    IF lines = <<>> THEN <<>> ELSE Split(Head(lines), <<>>) \o WordsOf(Tail(lines))

\* the wrapping step regrouped the line's words, in order, into non-empty
\* lines of at most max_line_length characters
Regrouped(line, new_lines, max_line_length) ==
    /\ WordsOf(new_lines) = Split(line, <<>>)
    /\ \A k \in 1..Len(new_lines) :
           new_lines[k] # <<>> /\ Len(new_lines[k]) <= max_line_length

\* C25: with max_line_length set, the hard wrapping of BasicTextCleaner turns
\* every line longer than max_line_length into that line's words, in their
\* order, regrouped into non-empty lines of at most max_line_length characters
\* each, and leaves the other lines as they are.
C25_LongLinesRegrouped ==
    (pc = "returned" /\ WrapsLines(processors[1])) =>
        LET max_line_length == processors[1].max_line_length[1]
        IN  \A k \in 1..Len(trace) :
                IF Len(trace[k].line) > max_line_length
                THEN Regrouped(trace[k].line, trace[k].new_lines, max_line_length)
                ELSE trace[k].new_lines = <<trace[k].line>>

\* the same for lines whose words are all shorter than max_line_length
C25_LongLinesOfShortWordsRegrouped ==
    (pc = "returned" /\ WrapsLines(processors[1])) =>
        LET max_line_length == processors[1].max_line_length[1]
        IN  \A k \in 1..Len(trace) :
                IF Len(trace[k].line) > max_line_length
                THEN (\A w \in Range(Split(trace[k].line, <<>>)) : Len(w) < max_line_length)
                         => Regrouped(trace[k].line, trace[k].new_lines, max_line_length)
                ELSE trace[k].new_lines = <<trace[k].line>>

----------------------------------------------------------------------------
(* Properties of the tokenizers *)

\* len(sentence.split())
WordCount(sentence) == Len(Split(sentence, <<>>))

\* the sentence is within the configured bounds
WithinBounds(self, sentence) ==
    /\ WordCount(sentence) >= self.min_sentence_length
    /\ self.max_sentence_length # <<>> =>
           WordCount(sentence) <= self.max_sentence_length[1]

\* processing_metadata holds the candidates within the bounds, in their order,
\* and their number
StoresSentencesWithinBounds ==
    LET self == processors[1]
        candidates == trace[1]
        kept == {k \in 1..Len(candidates) : WithinBounds(self, candidates[k])}
        sentences == Meta(1)["sentences"]
    IN  /\ Len(sentences) = Cardinality(kept)
        /\ \A n \in 1..Len(sentences) :
               \E k \in kept : /\ sentences[n] = candidates[k]
                               /\ Cardinality({j \in kept : j < k}) = n - 1
        /\ Meta(1)["sentence_count"] = Len(sentences)

\* C23: SentenceTokenizer keeps exactly the candidate sentences whose number
\* of whitespace-separated words is at least min_sentence_length and, when
\* max_sentence_length is set, at most max_sentence_length, in their order,
\* and stores them in processing_metadata["sentences"] with sentence_count
\* their number.
C23_SentencesWithinBounds ==
    pc = "returned" => StoresSentencesWithinBounds

\* the same whenever the tokenizer applies its filter or has no upper bound
C23_SentencesWithinBoundsWhenFiltering ==
    (/\ pc = "returned"
     /\ FiltersSentences(processors[1]) \/ processors[1].max_sentence_length = <<>>)
        => StoresSentencesWithinBounds

\* token_count is not None: only WordTokenizer.process assigns the field, and
\* it records its step in the history
TokenCountSet(rec) == "word_tokenization" \in Range(rec.processing_history)

\* C22: every record the default pipeline produces from a document with a
\* non-empty id and text has quality_score set and token_count > 0.
C22_ProducedRecordsScoredAndTokenized ==
    \A k \in 1..Len(output) :
        /\ heap[output[k]].quality_score # <<>>
        /\ TokenCountSet(heap[output[k]])
        /\ heap[output[k]].token_count > 0

\* every produced record has its quality_score and its token_count set, and
\* a token_count > 0 if one of its sentences has three words
C22_ProducedRecordsScored ==
    \A k \in 1..Len(output) :
        /\ heap[output[k]].quality_score # <<>>
        /\ TokenCountSet(heap[output[k]])
        /\ Meta(output[k])["sentences"] # <<>> => heap[output[k]].token_count > 0

----------------------------------------------------------------------------
(* Properties of the LegalTokenizer *)

\* the text with the spans of the entities from the i-th back to the first
\* replaced by their placeholders, the rightmost first
RECURSIVE MaskedFromRight(_, _, _, _)
MaskedFromRight(text, entities, mask_map, i) ==
    IF i = 0
    THEN text
    ELSE MaskedFromRight(SubSeq(text, 1, entities[i].span[1]) \o mask_map[i][1]
                             \o SubSeq(text, entities[i].span[2] + 1, Len(text)),
                         entities, mask_map, i - 1)

\* s in token
Contains(token, s) ==
    \E i \in 1..(Len(token) - Len(s) + 1) : SubSeq(token, i, i + Len(s) - 1) = s

\* every entity got a placeholder of its own, put where its span was; the
\* final tokens hold each entity as one token, and no placeholder
EntitiesMaskedAndRestored ==
    LET text == documents[1].text
        entities == Meta(1)["legal_entities"]
        mask_map == trace[1].mask_map
        tokens == heap[1].tokens
    IN  /\ Len(mask_map) = Len(entities)
        /\ \A i, j \in 1..Len(mask_map) : mask_map[i][1] = mask_map[j][1] => i = j
        /\ \A i \in 1..Len(mask_map) : mask_map[i][2] = entities[i].text
        /\ trace[1].masked_text = MaskedFromRight(text, entities, mask_map, Len(entities))
        /\ \A i \in 1..Len(entities) :
               Cardinality({k \in 1..Len(tokens) : tokens[k] = entities[i].text})
                   = Cardinality({j \in 1..Len(entities) : entities[j].text = entities[i].text})
        /\ \A k \in 1..Len(tokens), i \in 1..Len(mask_map) :
               ~Contains(tokens[k], mask_map[i][1])

\* C24: for a text whose entity matches do not overlap, the LegalTokenizer
\* replaces each matched span by its own distinct placeholder at the position
\* corrected for the earlier replacements, and after tokenization each entity
\* is exactly one of the final tokens, equal to the entity's text, and no
\* placeholder is left in the final tokens.
C24_EntitiesMaskedAndRestored ==
    pc = "returned" => EntitiesMaskedAndRestored

\* no entity of the text touches a word character
EntitiesIsolated ==
    LET text == documents[1].text
        entities == Meta(1)["legal_entities"]
    IN  \A i \in 1..Len(entities) :
            /\ entities[i].span[1] = 0 \/ text[entities[i].span[1]] \notin WordChars
            /\ entities[i].span[2] = Len(text)
                   \/ text[entities[i].span[2] + 1] \notin WordChars

\* the same for the texts whose entities touch no word character
C24_IsolatedEntitiesMaskedAndRestored ==
    (pc = "returned" /\ EntitiesIsolated) => EntitiesMaskedAndRestored

====
